---- MODULE Spec2Model ----
(***************************************************************************)
(* LLM gateway: request orchestrator (cmd/gateway/handler.go), profiler    *)
(* (internal/llm/profiler.go) and router (internal/llm/router.go) over a   *)
(* key-value store holding profiles, monthly cost counters, sessions and   *)
(* the response cache.                                                     *)
(*                                                                         *)
(* Conventions.  The store is reliable (no Redis transport errors).  One   *)
(* request is one step.  Money is counted in micro-dollars, time in ticks  *)
(* of 30 minutes, strategy weights in percent;                             *)
(* scores and error rates are exact fractions [n, d] with d > 0.           *)
(***************************************************************************)
EXTENDS Integers, Sequences, FiniteSets, TLC

VARIABLES
    config,     \* AppConfig snapshot: ModelBudgets and RouterConfig.Models
    profiles,   \* profile:<model_id> hashes
    spent,      \* cost:<model_id>:<YYYY-MM> counter of the current month
    sessions,   \* session:<conversation_id> hashes with their expiry
    cache,      \* llmcache:<key> entries with their expiry
    now,        \* wall clock
    month,      \* index of the current calendar month
    nreq,       \* number of requests handled so far
    resp,       \* the request handled by the step just taken and its response
                \* (NoResp after a step that is not a request)
    versions,   \* version.ComponentVersions of the running build
    cacheUp,    \* whether the store answers the response cache's GET and SET
    inflight    \* calls in progress when one component is explored step by step

vars == <<config, profiles, spent, sessions, cache, now, month, nreq, resp,
          versions, cacheUp, inflight>>

---------------------------------------------------------------------------
\* Bounds of the exploration.
MaxRequests == 2
MaxTime == 2
MaxMonth == 1

---------------------------------------------------------------------------
\* Configuration (ENABLED_MODELS, cost table, config.yaml).

Nil == -1
ZeroTime == -1000

\* version.ComponentVersions as shipped; a version string is a sequence of
\* text fragments
ComponentVersions == [Tools |-> <<"v1.0">>, RAGData |-> <<"v1.0">>, PromptLogic |-> <<"v1.0">>]

\* no call in progress
NoCalls == <<>>

\* model ids known to the router library and to clients of the gateway
ModelIds == {"gpt-4o", "claude-3", "mistral-7b"}

\* the set of elements of a list
Range(seq) == {seq[i] : i \in 1..Len(seq)}

\* initializeLLMClients: one client per enabled model that has an API key
\* (every enabled model has one here)
Clients(cfg) == Range(cfg.EnabledModels)

toolModelID == "gpt-4o"

\* per-token prices in micro-dollars; a model without an entry costs 0
modelCosts ==
    [m \in ModelIds |->
        CASE m = "gpt-4o"     -> [input |-> 5, output |-> 15]
          [] m = "claude-3"   -> [input |-> 3, output |-> 15]
          [] m = "mistral-7b" -> [input |-> 1, output |-> 3]
          [] OTHER            -> [input |-> 0, output |-> 0]]

\* RouterConfig.Models: quality_score and coding_score on the 0..10 scale
ModelMetadataTable ==
    [m \in ModelIds |->
        CASE m = "gpt-4o"   -> [QualityScore |-> 9, CodingScore |-> 8]
          [] m = "claude-3" -> [QualityScore |-> 8, CodingScore |-> 9]
          [] OTHER          -> [QualityScore |-> 7, CodingScore |-> 6]]

StrategyNames ==
    {"default", "cost", "balanced", "max_quality", "best-for-coding",
     "latency-focused-balanced", "quality-focused-balanced"}

\* RouterConfig.Strategies: weights in percent
Strategies ==
    [s \in StrategyNames |->
        CASE s = "default" ->
               [UseCodingScore |-> FALSE, QualityWeight |-> 40, CostWeight |-> 30, LatencyWeight |-> 30]
          [] s = "cost" ->
               [UseCodingScore |-> FALSE, QualityWeight |-> 10, CostWeight |-> 80, LatencyWeight |-> 10]
          [] s = "balanced" ->
               [UseCodingScore |-> FALSE, QualityWeight |-> 34, CostWeight |-> 33, LatencyWeight |-> 33]
          [] s = "max_quality" ->
               [UseCodingScore |-> FALSE, QualityWeight |-> 90, CostWeight |-> 5, LatencyWeight |-> 5]
          [] s = "best-for-coding" ->
               [UseCodingScore |-> TRUE, QualityWeight |-> 80, CostWeight |-> 10, LatencyWeight |-> 10]
          [] s = "latency-focused-balanced" ->
               [UseCodingScore |-> FALSE, QualityWeight |-> 20, CostWeight |-> 20, LatencyWeight |-> 60]
          [] OTHER ->
               [UseCodingScore |-> FALSE, QualityWeight |-> 60, CostWeight |-> 20, LatencyWeight |-> 20]]

\* pre_check_thresholds
health_check_staleness == 1
min_request_count == 2
max_error_rate == [n |-> 1, d |-> 2]

\* smart-balanced switches strategy at a mean estimated cost of 0.001 USD
smartCostThreshold == 1000

\* the deployments explored from a cold start (ENABLED_MODELS, budgets and
\* the models listed in config.yaml): two scored models, a single model,
\* and two models of which claude-3 has no entry in config.yaml
Budgets ==
    [m \in ModelIds |-> CASE m = "gpt-4o" -> 3500 [] m = "claude-3" -> 3300 [] OTHER -> 0]

Configs ==
    { [EnabledModels |-> <<"gpt-4o", "claude-3">>, Models |-> ModelIds,
       ModelBudgets |-> Budgets],
      [EnabledModels |-> <<"gpt-4o">>, Models |-> ModelIds,
       ModelBudgets |-> Budgets],
      [EnabledModels |-> <<"gpt-4o", "claude-3">>, Models |-> {"gpt-4o", "mistral-7b"},
       ModelBudgets |-> Budgets] }

---------------------------------------------------------------------------
\* Profiler.

defaultLatencyMS == 2000

NoProfile ==
    [avg_latency_ms |-> Nil, cost_per_input_token |-> Nil, cost_per_output_token |-> Nil,
     status |-> "", error_rate |-> [n |-> Nil, d |-> 1],
     total_successes |-> Nil, total_failures |-> Nil,
     total_input_tokens |-> Nil, total_output_tokens |-> Nil,
     last_health_check |-> ZeroTime]

\* strconv.ParseInt / ParseFloat of a missing field yields 0
ParseNum(x) == IF x = Nil THEN 0 ELSE x

ParseRate(r) == IF r.n = Nil THEN [n |-> 0, d |-> 1] ELSE r

\* createDefaultProfile: the stored hash (token counters are not written)
DefaultHash(m, t) ==
    [avg_latency_ms |-> defaultLatencyMS,
     cost_per_input_token |-> modelCosts[m].input,
     cost_per_output_token |-> modelCosts[m].output,
     status |-> "online", error_rate |-> [n |-> 0, d |-> 1],
     total_successes |-> 1, total_failures |-> 0,
     total_input_tokens |-> Nil, total_output_tokens |-> Nil,
     last_health_check |-> t]

createDefaultProfile(P, t, m) ==
    [store |-> [P EXCEPT ![m] = DefaultHash(m, t)],
     profile |-> [ModelID |-> m, AvgLatencyMS |-> defaultLatencyMS,
                  CostPerInputToken |-> modelCosts[m].input,
                  CostPerOutputToken |-> modelCosts[m].output,
                  Status |-> "online", ErrorRate |-> [n |-> 0, d |-> 1],
                  TotalSuccesses |-> 1, TotalFailures |-> 0,
                  TotalInputTokens |-> 0, TotalOutputTokens |-> 0,
                  LastHealthCheck |-> t, CostSpentMonthly |-> 0]]

\* GetProfile: read the hash, create the default one when the hash is empty
GetProfile(P, S, t, m) ==
    IF P[m] = NoProfile
    THEN createDefaultProfile(P, t, m)
    ELSE [store |-> P,
          profile |-> [ModelID |-> m,
                       AvgLatencyMS |-> ParseNum(P[m].avg_latency_ms),
                       CostPerInputToken |-> ParseNum(P[m].cost_per_input_token),
                       CostPerOutputToken |-> ParseNum(P[m].cost_per_output_token),
                       Status |-> P[m].status,
                       ErrorRate |-> ParseRate(P[m].error_rate),
                       TotalSuccesses |-> ParseNum(P[m].total_successes),
                       TotalFailures |-> ParseNum(P[m].total_failures),
                       TotalInputTokens |-> ParseNum(P[m].total_input_tokens),
                       TotalOutputTokens |-> ParseNum(P[m].total_output_tokens),
                       LastHealthCheck |-> P[m].last_health_check,
                       CostSpentMonthly |-> S[m]]]

EwmaLatencyHalf(latency, current) == (latency + current) \div 2

\* int64(alpha*latency + (1-alpha)*current) with alpha = 0.1
EwmaLatency(latency, current) == (latency + 9 * current) \div 10

\* UpdateProfileOnSuccess.  The counter pipeline reports redis.Nil when
\* total_failures is missing, and then error_rate is left as it was.
UpdateProfileOnSuccess(P, S, m, latency, usage) ==
    LET h == P[m]
        newLatency == EwmaLatency(latency, ParseNum(h.avg_latency_ms))
        successes == ParseNum(h.total_successes) + 1
        callCost == usage.prompt_tokens * modelCosts[m].input
                    + usage.completion_tokens * modelCosts[m].output
        h1 == [h EXCEPT !.avg_latency_ms = newLatency,
                        !.total_successes = successes,
                        !.total_input_tokens = ParseNum(h.total_input_tokens) + usage.prompt_tokens,
                        !.total_output_tokens = ParseNum(h.total_output_tokens) + usage.completion_tokens,
                        !.status = "online"]
        h2 == IF h.total_failures = Nil
              THEN h1
              ELSE [h1 EXCEPT !.error_rate =
                        [n |-> h.total_failures, d |-> successes + h.total_failures]]
    IN  [store |-> [P EXCEPT ![m] = h2],
         spent |-> [S EXCEPT ![m] = S[m] + callCost]]

\* UpdateProfileOnFailure.  The pipeline reports redis.Nil when
\* total_successes is missing, and then error_rate is left as it was.
UpdateProfileOnFailure(P, m) ==
    LET h == P[m]
        failures == ParseNum(h.total_failures) + 1
        h1 == [h EXCEPT !.total_failures = failures, !.status = "degraded"]
        h2 == IF h.total_successes = Nil
              THEN h1
              ELSE [h1 EXCEPT !.error_rate =
                        [n |-> failures, d |-> h.total_successes + failures]]
    IN  [P EXCEPT ![m] = h2]

\* UpdateProfileOnHealthCheck
UpdateProfileOnHealthCheckStatusOnly(P, S, t, m, isHealthy) ==
    [P EXCEPT ![m].status = IF isHealthy THEN "online" ELSE "offline",
              ![m].last_health_check = t]

UpdateProfileOnHealthCheck(P, S, t, m, isHealthy) ==
    LET P1 == GetProfile(P, S, t, m).store
    IN  [P1 EXCEPT ![m].status = IF isHealthy THEN "online" ELSE "offline",
                   ![m].last_health_check = t]

---------------------------------------------------------------------------
\* Router.

RECURSIVE GCD(_, _)
GCD(a, b) == IF b = 0 THEN a ELSE GCD(b, a % b)

\* the fraction n/d in lowest terms
Frac(n, d) ==
    IF n = 0 THEN [n |-> 0, d |-> 1]
    ELSE LET g == GCD(n, d) IN [n |-> n \div g, d |-> d \div g]

\* an/ad > bn/bd for an, bn >= 0 and ad, bd > 0, by Euclid's algorithm
RECURSIVE PosFracGT(_, _, _, _)
PosFracGT(an, ad, bn, bd) ==
    LET qa == an \div ad
        qb == bn \div bd
        ra == an % ad
        rb == bn % bd
    IN  IF qa # qb THEN qa > qb
        ELSE IF ra = 0 THEN FALSE
        ELSE IF rb = 0 THEN TRUE
        ELSE PosFracGT(bd, rb, ad, ra)

\* a > b for fractions with positive denominators
FracGT(a, b) ==
    IF a.n >= 0 /\ b.n >= 0 THEN PosFracGT(a.n, a.d, b.n, b.d)
    ELSE IF a.n >= 0 THEN TRUE
    ELSE IF b.n >= 0 THEN FALSE
    ELSE PosFracGT(0 - b.n, b.d, 0 - a.n, a.d)

FracGE(a, b) == ~FracGT(b, a)

passesPreChecksIgnoringOffline(profile, monthlyBudget, t) ==
    IF t - profile.LastHealthCheck > health_check_staleness THEN FALSE
    ELSE IF monthlyBudget > 0 /\ profile.CostSpentMonthly >= monthlyBudget THEN FALSE
    ELSE IF /\ profile.TotalSuccesses + profile.TotalFailures > min_request_count
            /\ FracGT(profile.ErrorRate, max_error_rate) THEN FALSE
    ELSE TRUE

passesPreChecksBudgetStrict(profile, monthlyBudget, t) ==
    IF profile.Status = "offline" THEN FALSE
    ELSE IF t - profile.LastHealthCheck > health_check_staleness THEN FALSE
    ELSE IF monthlyBudget > 0 /\ profile.CostSpentMonthly > monthlyBudget THEN FALSE
    ELSE IF /\ profile.TotalSuccesses + profile.TotalFailures > min_request_count
            /\ FracGT(profile.ErrorRate, max_error_rate) THEN FALSE
    ELSE TRUE

passesPreChecksIgnoringStaleness(profile, monthlyBudget, t) ==
    IF profile.Status = "offline" THEN FALSE
    ELSE IF monthlyBudget > 0 /\ profile.CostSpentMonthly >= monthlyBudget THEN FALSE
    ELSE IF /\ profile.TotalSuccesses + profile.TotalFailures > min_request_count
            /\ FracGT(profile.ErrorRate, max_error_rate) THEN FALSE
    ELSE TRUE

\* passesPreChecks: health, staleness, budget and error-rate filters
passesPreChecks(profile, monthlyBudget, t) ==
    IF profile.Status = "offline" THEN FALSE
    ELSE IF t - profile.LastHealthCheck > health_check_staleness THEN FALSE
    ELSE IF monthlyBudget > 0 /\ profile.CostSpentMonthly >= monthlyBudget THEN FALSE
    ELSE IF /\ profile.TotalSuccesses + profile.TotalFailures > min_request_count
            /\ FracGT(profile.ErrorRate, max_error_rate) THEN FALSE
    ELSE TRUE

\* pass 1 of SelectOptimalModel: the loop over availableModels
RECURSIVE FilterContenders(_, _, _, _, _, _, _, _)
FilterContenders(i, availableModels, P, S, t, cfg, promptTokens, acc) ==
    IF i > Len(availableModels)
    THEN [store |-> P, contenders |-> acc]
    ELSE LET modelID == availableModels[i]
             g == GetProfile(P, S, t, modelID)
             estimatedOutputTokens == promptTokens * 2
             c == [ModelID |-> modelID,
                   Profile |-> g.profile,
                   Metadata |-> ModelMetadataTable[modelID],
                   EstimatedCost |-> promptTokens * g.profile.CostPerInputToken
                                     + estimatedOutputTokens * g.profile.CostPerOutputToken]
             keep == /\ passesPreChecks(g.profile, cfg.ModelBudgets[modelID], t)
                     /\ modelID \in cfg.Models
         IN  FilterContenders(i + 1, availableModels, g.store, S, t, cfg, promptTokens,
                              IF keep THEN acc \cup {c} ELSE acc)

RECURSIVE SumEstimatedCost(_)
SumEstimatedCost(contenders) ==
    IF contenders = {} THEN 0
    ELSE LET c == CHOOSE x \in contenders : TRUE
         IN  c.EstimatedCost + SumEstimatedCost(contenders \ {c})

\* getStrategy: named strategy, "default" for unknown names, and the
\* dynamic choice of "smart-balanced" on the mean estimated cost
getStrategy(preference, contenders) ==
    IF preference = "smart-balanced"
    THEN IF SumEstimatedCost(contenders) < smartCostThreshold * Cardinality(contenders)
         THEN Strategies["latency-focused-balanced"]
         ELSE Strategies["quality-focused-balanced"]
    ELSE IF preference \in StrategyNames
         THEN Strategies[preference]
         ELSE Strategies["default"]

SetMin(S) == CHOOSE x \in S : \A y \in S : x <= y

SetMax(S) == CHOOSE x \in S : \A y \in S : x >= y

\* getNormalizationBounds (the maxima start from 0)
getNormalizationBounds(contenders) ==
    [minCost |-> SetMin({c.EstimatedCost : c \in contenders}),
     maxCost |-> SetMax({0} \cup {c.EstimatedCost : c \in contenders}),
     minLatency |-> SetMin({c.Profile.AvgLatencyMS : c \in contenders}),
     maxLatency |-> SetMax({0} \cup {c.Profile.AvgLatencyMS : c \in contenders})]

scoreWithoutReliability(c, strategy, minCost, maxCost, minLatency, maxLatency) ==
    LET latencyFactor == IF maxLatency > minLatency
                         THEN Frac(maxLatency - c.Profile.AvgLatencyMS, maxLatency - minLatency)
                         ELSE [n |-> 1, d |-> 2]
        costFactor == IF maxCost > minCost
                      THEN Frac(maxCost - c.EstimatedCost, maxCost - minCost)
                      ELSE [n |-> 1, d |-> 2]
        qualityFactor == IF strategy.UseCodingScore
                         THEN [n |-> c.Metadata.CodingScore, d |-> 10]
                         ELSE [n |-> c.Metadata.QualityScore, d |-> 10]
    IN  [n |-> strategy.QualityWeight * qualityFactor.n * costFactor.d * latencyFactor.d
               + strategy.CostWeight * costFactor.n * qualityFactor.d * latencyFactor.d
               + strategy.LatencyWeight * latencyFactor.n * qualityFactor.d * costFactor.d,
         d |-> qualityFactor.d * costFactor.d * latencyFactor.d]

\* calculateNormalizedScore, as the exact fraction of the weighted sum
calculateNormalizedScore(c, strategy, minCost, maxCost, minLatency, maxLatency) ==
    LET latencyFactor == IF maxLatency > minLatency
                         THEN Frac(maxLatency - c.Profile.AvgLatencyMS, maxLatency - minLatency)
                         ELSE [n |-> 1, d |-> 2]
        costFactor == IF maxCost > minCost
                      THEN Frac(maxCost - c.EstimatedCost, maxCost - minCost)
                      ELSE [n |-> 1, d |-> 2]
        qualityFactor == IF strategy.UseCodingScore
                         THEN [n |-> c.Metadata.CodingScore, d |-> 10]
                         ELSE [n |-> c.Metadata.QualityScore, d |-> 10]
        reliabilityFactor == [n |-> c.Profile.ErrorRate.d - c.Profile.ErrorRate.n,
                              d |-> c.Profile.ErrorRate.d]
        weighted == strategy.QualityWeight * qualityFactor.n * costFactor.d * latencyFactor.d
                    + strategy.CostWeight * costFactor.n * qualityFactor.d * latencyFactor.d
                    + strategy.LatencyWeight * latencyFactor.n * qualityFactor.d * costFactor.d
    IN  [n |-> weighted * reliabilityFactor.n,
         d |-> qualityFactor.d * costFactor.d * latencyFactor.d * reliabilityFactor.d]

\* one step of the scoring loop: a strictly greater score replaces the best
BetterScore(score, bestScore) == FracGT(score, bestScore)

\* pass 2 of SelectOptimalModel: the loop over the contender map in the
\* iteration order the runtime happens to pick
RECURSIVE ScoreLoop(_, _, _, _, _)
ScoreLoop(order, i, strategy, bounds, best) ==
    IF i > Len(order) THEN best
    ELSE LET c == order[i]
             score == calculateNormalizedScore(c, strategy, bounds.minCost, bounds.maxCost,
                                               bounds.minLatency, bounds.maxLatency)
         IN  ScoreLoop(order, i + 1, strategy, bounds,
                       IF BetterScore(score, best.bestScore)
                       THEN [bestModel |-> c.ModelID, bestScore |-> score]
                       ELSE best)

\* the iteration orders of a map
IterationOrders(S) ==
    {o \in [1..Cardinality(S) -> S] : \A i, j \in 1..Cardinality(S) : o[i] = o[j] => i = j}

\* SelectOptimalModel: the outcomes the call can have; modelID = "" is the
\* error return
SelectOptimalModel(P, S, t, cfg, availableModels, preference, promptTokens) ==
    LET scan == FilterContenders(1, availableModels, P, S, t, cfg, promptTokens, {})
        contenders == scan.contenders
    IN  IF contenders = {}
        THEN {[store |-> scan.store, modelID |-> ""]}
        ELSE IF Cardinality(contenders) = 1
        THEN {[store |-> scan.store, modelID |-> c.ModelID] : c \in contenders}
        ELSE LET strategy == getStrategy(preference, contenders)
                 bounds == getNormalizationBounds(contenders)
             IN  {[store |-> scan.store,
                   modelID |-> ScoreLoop(o, 1, strategy, bounds,
                                         [bestModel |-> "", bestScore |-> [n |-> -1, d |-> 1]]).bestModel]
                  : o \in IterationOrders(contenders)}

---------------------------------------------------------------------------
\* Requests and their environment.

Convs == {"conv-42"}

Prompts == {"Design a logo", "what is 12 * 7?"}

HistoryLens == {0}

Preferences == {"", "cost"}

\* usage reported by one provider call, and request latencies in ms
Usages == {[prompt_tokens |-> 100, completion_tokens |-> 200]}

Latencies == {1000}

maxToolCalls == 5

\* what a provider answers to one Generate call
ProviderResults ==
    {[kind |-> k, usage |-> u] : k \in {"error", "final", "tools"}, u \in Usages}

\* scripts are long enough to answer calls beyond the loop's limit
ScriptLen == maxToolCalls + 2

\* a provider that answers every call the same way
Always(kind) ==
    [i \in 1..ScriptLen |-> [kind |-> kind, usage |-> CHOOSE u \in Usages : TRUE]]

\* the provider behaviours explored with the whole gateway
ToolScripts == {Always("error"), Always("final"), Always("tools")}

\* no tool loop
NoScript == <<>>

\* 1*time.Hour in ticks
sessionTTL == 2

BadRequest ==
    [valid |-> FALSE, conversation_id |-> "", prompt |-> "", history_len |-> 0,
     preference |-> "", force_model |-> ""]

ForceModels == {"", "gpt-4o", "claude-3"}

Requests ==
    [valid : {TRUE}, conversation_id : {""} \cup Convs, prompt : Prompts,
     history_len : HistoryLens, preference : Preferences,
     force_model : ForceModels]
    \cup {BadRequest}

\* len(req.Prompt)
PromptLen(prompt) ==
    CASE prompt = "Design a logo" -> 13
      [] prompt = "what is 12 * 7?" -> 15
      [] OTHER -> 0

\* IntentAnalyzer.AnalyzeIntent on the prompts above: no weather or news
\* keyword occurs; the calculator expression matches digits-operator-digits
AnalyzeIntent(prompt) ==
    IF prompt = "what is 12 * 7?" THEN "calculator" ELSE "rag_knowledge_query"

\* PromptAnalyzer.Analyze on the prompts above: "design a" is an ultra
\* archetype (score 30 > 25); "what is ..." is a simple query of score 0
Analyze(prompt) ==
    CASE prompt = "Design a logo" -> "max_quality"
      [] prompt = "what is 12 * 7?" -> "cost"
      [] OTHER -> "cost"

---------------------------------------------------------------------------
\* Session store.

NoSession == [model_id |-> "", is_forced |-> "", expires |-> 0]

NoFailover == [original_model |-> "", new_model |-> ""]

\* fmt.Sprintf("%v", isForced)
FormatBool(b) == IF b THEN "true" ELSE "false"

refreshSessionTTLSkipped(Sess, conv, t) == Sess

\* Expire(ctx, sessionKey, 1*time.Hour); a key that does not exist stays absent
refreshSessionTTL(Sess, conv, t) ==
    IF Sess[conv] = NoSession THEN Sess
    ELSE [Sess EXCEPT ![conv].expires = t + sessionTTL]

pinSession(Sess, conv, modelID, isForced, t) ==
    [Sess EXCEPT ![conv] = [model_id |-> modelID, is_forced |-> FormatBool(isForced),
                            expires |-> t + sessionTTL]]

alternativeNotOffline(status) == status # "offline"

\* the models suggestHealthyAlternatives lists
alternativeHealthy(status) == status = "online"

\* suggestHealthyAlternatives: the loop over the enabled models
RECURSIVE suggestHealthyAlternatives(_, _, _, _, _, _, _)
suggestHealthyAlternatives(i, cfg, P, S, t, failedModelID, healthyModels) ==
    IF i > Len(cfg.EnabledModels)
    THEN [store |-> P, available_models |-> healthyModels]
    ELSE LET model == cfg.EnabledModels[i]
             g == GetProfile(P, S, t, model)
         IN  IF model = failedModelID
             THEN suggestHealthyAlternatives(i + 1, cfg, P, S, t, failedModelID, healthyModels)
             ELSE suggestHealthyAlternatives(i + 1, cfg, g.store, S, t, failedModelID,
                    IF alternativeHealthy(g.profile.Status)
                    THEN Append(healthyModels, model) ELSE healthyModels)

sessionHitDynamicOnly(isForcedSession, status, preference) ==
    status = "online" /\ preference = ""

\* an existing session is reused when its pinned model is online and the
\* chat is forced or the request carries no preference
sessionHit(isForcedSession, status, preference) ==
    IF isForcedSession
    THEN status = "online"
    ELSE status = "online" /\ preference = ""

\* a session whose pinned model is not online fails over
sessionFailover(status) == status # "online"

\* a new forced chat is refused unless the forced model is online
forceModelUnavailable(status) == status # "online"

\* determineModelID: the outcomes of session resolution and routing.
\* code = 0 means a model was chosen; 424 and 503 are terminal responses.
determineModelID(P, S, Sess, t, cfg, req) ==
    LET conv == req.conversation_id
        hasSession == conv # "" /\ Sess[conv] # NoSession
        pinnedModel == Sess[conv].model_id
        isForcedSession == Sess[conv].is_forced = "true"
        g == GetProfile(P, S, t, pinnedModel)
        P1 == IF hasSession THEN g.store ELSE P
        reuse == hasSession /\ sessionHit(isForcedSession, g.profile.Status, req.preference)
        failover == hasSession /\ sessionFailover(g.profile.Status)
        preference1 == IF failover /\ isForcedSession THEN "max_quality" ELSE req.preference
        failoverInfo == IF failover
                        THEN [original_model |-> pinnedModel, new_model |-> ""]
                        ELSE NoFailover
    IN  IF reuse
        THEN {[profiles |-> P1, sessions |-> refreshSessionTTL(Sess, conv, t),
               modelID |-> pinnedModel, failoverInfo |-> NoFailover, code |-> 0,
               available_models |-> <<>>, routed |-> FALSE, preference |-> req.preference, tokens |-> 0]}
        ELSE IF conv # "" /\ req.force_model # ""
        THEN LET forcedModelID == req.force_model
                 gf == GetProfile(P1, S, t, forcedModelID)
             IN  IF forceModelUnavailable(gf.profile.Status)
                 THEN LET alt == suggestHealthyAlternatives(1, cfg, gf.store, S, t, forcedModelID, <<>>)
                      IN  {[profiles |-> alt.store, sessions |-> Sess,
                            modelID |-> "", failoverInfo |-> NoFailover, code |-> 424,
                            available_models |-> alt.available_models,
                            routed |-> FALSE, preference |-> preference1, tokens |-> 0]}
                 ELSE {[profiles |-> gf.store,
                        sessions |-> pinSession(Sess, conv, forcedModelID, TRUE, t),
                        modelID |-> forcedModelID, failoverInfo |-> NoFailover, code |-> 0,
                        available_models |-> <<>>, routed |-> FALSE, preference |-> preference1, tokens |-> 0]}
        ELSE LET preference2 == IF preference1 = "" THEN Analyze(req.prompt) ELSE preference1
                 totalPromptLength == PromptLen(req.prompt) + req.history_len
                 estimatedTokens == totalPromptLength \div 4
             IN  {IF r.modelID = ""
                  THEN [profiles |-> r.store, sessions |-> Sess,
                        modelID |-> "", failoverInfo |-> NoFailover, code |-> 503,
                        available_models |-> <<>>, routed |-> TRUE, preference |-> preference2,
                        tokens |-> estimatedTokens]
                  ELSE [profiles |-> r.store,
                        sessions |-> IF conv # ""
                                     THEN pinSession(Sess, conv, r.modelID, FALSE, t)
                                     ELSE Sess,
                        modelID |-> r.modelID,
                        failoverInfo |-> IF failover
                                         THEN [failoverInfo EXCEPT !.new_model = r.modelID]
                                         ELSE NoFailover,
                        code |-> 0, available_models |-> <<>>,
                        routed |-> TRUE, preference |-> preference2,
                        tokens |-> estimatedTokens]
                  : r \in SelectOptimalModel(P1, S, t, cfg, cfg.EnabledModels, preference2,
                                             estimatedTokens)}

---------------------------------------------------------------------------
\* Generation.

NoUsage == [prompt_tokens |-> 0, completion_tokens |-> 0]

\* performRAGRetrieval: whether the retrieved context reached the threshold.
\* The knowledge base is fixed: it holds a relevant document for the design
\* prompt and none for the others.
performRAGRetrieval(prompt) == prompt = "Design a logo"

\* executeRAGAndGenerate: retrieval failure, missing client, provider
\* failure (which marks the profile) or a result
executeRAGAndGenerate(cfg, P, modelID, prompt) ==
    {[profiles |-> P, err |-> TRUE, error |-> "RAG retrieval failed",
      usage |-> NoUsage, rag |-> FALSE,
      gen_model |-> "", gen_calls |-> 0, tool_turns |-> 0]}
    \cup
    (IF modelID \notin Clients(cfg)
     THEN {[profiles |-> P, err |-> TRUE, error |-> "no client available for model",
            usage |-> NoUsage, rag |-> FALSE,
            gen_model |-> "", gen_calls |-> 0, tool_turns |-> 0]}
     ELSE {[profiles |-> UpdateProfileOnFailure(P, modelID), err |-> TRUE,
            error |-> "LLM generation failed for model", usage |-> NoUsage,
            rag |-> FALSE, gen_model |-> modelID, gen_calls |-> 1, tool_turns |-> 0]}
          \cup
          {[profiles |-> P, err |-> FALSE, error |-> "", usage |-> x[1], rag |-> performRAGRetrieval(prompt),
            gen_model |-> modelID, gen_calls |-> 1, tool_turns |-> 0]
           : x \in Usages \X {prompt}})

loopContinuesInclusive(i) == i <= maxToolCalls

\* the condition of the loop `for i := 0; i < maxToolCalls; i++`
loopContinues(i) == i < maxToolCalls

\* the loop of handleToolLoop from iteration i on; script[i + 1] is what the
\* provider answers to the Generate call of iteration i: an error, a final
\* answer, or a request for tool calls
RECURSIVE toolLoopFrom(_, _, _, _)
toolLoopFrom(P, script, i, cumulativeUsage) ==
    IF ~loopContinues(i)
    THEN [profiles |-> P, err |-> TRUE, error |-> "exceeded maximum number of tool calls",
          usage |-> NoUsage, rag |-> FALSE,
          gen_model |-> toolModelID, gen_calls |-> i, tool_turns |-> i]
    ELSE LET result == script[i + 1]
             usage == [prompt_tokens |-> cumulativeUsage.prompt_tokens + result.usage.prompt_tokens,
                       completion_tokens |-> cumulativeUsage.completion_tokens
                                             + result.usage.completion_tokens]
         IN  IF result.kind = "error"
             THEN [profiles |-> UpdateProfileOnFailure(P, toolModelID), err |-> TRUE,
                   error |-> "LLM generation failed during tool loop",
                   usage |-> NoUsage, rag |-> FALSE,
                   gen_model |-> toolModelID, gen_calls |-> i + 1, tool_turns |-> i]
             ELSE IF result.kind = "final"
             THEN [profiles |-> P, err |-> FALSE, error |-> "", usage |-> usage, rag |-> FALSE,
                   gen_model |-> toolModelID, gen_calls |-> i + 1, tool_turns |-> i]
             ELSE toolLoopFrom(P, script, i + 1, usage)

\* handleToolLoop with the hard-coded tool model
handleToolLoop(cfg, P, script) ==
    IF toolModelID \notin Clients(cfg)
    THEN {[profiles |-> P, err |-> TRUE, error |-> "tool-use model is not available or enabled",
           usage |-> NoUsage, rag |-> FALSE,
           gen_model |-> "", gen_calls |-> 0, tool_turns |-> 0]}
    ELSE {toolLoopFrom(P, script, 0, NoUsage)}

---------------------------------------------------------------------------
\* HandleGeneration.

\* the digest of a byte string; distinct inputs have distinct digests
Sha256(x) == <<"sha256", x>>

\* fmt.Sprintf("tv%s_rv%s_pv%s", ...): the concatenation of the fragments
VersionString(v) ==
    <<"tv">> \o v.Tools \o <<"_rv">> \o v.RAGData \o <<"_pv">> \o v.PromptLogic

\* GenerateVersionedCacheKey: fmt.Sprintf("%s:%s:%s", prefix, promptHash, versionString)
GenerateVersionedCacheKey(prefix, prompt, v) ==
    <<prefix, ":", Sha256(prompt), ":">> \o VersionString(v)

\* GenerateCacheKey of helpers.go
GenerateCacheKey(x) == Sha256(x)

\* the store key CheckCache and SetCache use for the handler's cacheKey
ResponseCacheKey(cacheKey) == <<"llmcache:", GenerateCacheKey(cacheKey)>>

\* the builds that can be deployed: the shipped versions, one component
\* bumped, and version strings that contain the text of a separator
Deployments ==
    {ComponentVersions,
     [ComponentVersions EXCEPT !.Tools = <<"v1.1">>],
     [ComponentVersions EXCEPT !.RAGData = <<"v1.1">>],
     [ComponentVersions EXCEPT !.PromptLogic = <<"v1.1">>],
     [ComponentVersions EXCEPT !.Tools = <<"v1.0", "_rv", "v1.1">>],
     [ComponentVersions EXCEPT !.Tools = <<"v1.0">>, !.RAGData = <<"v1.1", "_rv", "v1.0">>]}

\* a cached response; its 24 h TTL is longer than the explored time span
NoEntry ==
    [content |-> <<>>, model_used |-> "", usage |-> NoUsage, rag_context_used |-> FALSE,
     cache_status |-> "", failover_info |-> NoFailover]

\* the response cache without entries
EmptyCache == [k \in {} |-> NoEntry]

\* CheckCache: a missing key and a store error are both a miss
CheckCache(C, up, cacheKey) ==
    IF up /\ ResponseCacheKey(cacheKey) \in DOMAIN C
    THEN C[ResponseCacheKey(cacheKey)]
    ELSE NoEntry

\* SetCache: a store error is logged and dropped
SetCache(C, up, cacheKey, response) ==
    IF up
    THEN [k \in DOMAIN C \cup {ResponseCacheKey(cacheKey)} |->
            IF k = ResponseCacheKey(cacheKey) THEN response ELSE C[k]]
    ELSE C

NoResp ==
    [conversation_id |-> "", preference |-> "", force_model |-> "",
     code |-> 0, cache_status |-> "", chosen |-> "", model_used |-> "",
     content |-> <<>>, usage |-> NoUsage, rag_context_used |-> FALSE,
     failover_info |-> NoFailover,
     available_models |-> <<>>, routed |-> FALSE, router_pref |-> "", router_tokens |-> 0,
     gen_model |-> "", gen_calls |-> 0, tool_turns |-> 0,
     script |-> NoScript, error |-> "", prompt |-> "", written |-> <<>>]

ReqResp(req) ==
    [NoResp EXCEPT !.conversation_id = req.conversation_id,
                   !.prompt = req.prompt,
                   !.preference = req.preference,
                   !.force_model = req.force_model]

\* determineModelID returned an error: the response has already been sent
responseSentIgnored(d) == FALSE

\* determineModelID returned an error: it has written the response
responseSent(d) == d.code # 0

\* the intents HandleGeneration sends to the tool loop
usesTools(req) == AnalyzeIntent(req.prompt) \in {"weather", "calculator", "news"}

\* the text a provider returned, identified by the provider
finalContent(g) == <<"result", g.gen_calls, "of", g.gen_model>>

\* c.JSON(code, response): the response fields of the trace record
Respond(r, code, response) ==
    [r EXCEPT !.code = code,
              !.written = Append(@, code),
              !.content = response.content,
              !.model_used = response.model_used,
              !.usage = response.usage,
              !.rag_context_used = response.rag_context_used,
              !.cache_status = response.cache_status,
              !.failover_info = response.failover_info]

cachedHitAsStored(cachedResp) == cachedResp

\* the cached response as a hit returns it
cachedHit(cachedResp) == [cachedResp EXCEPT !.cache_status = "HIT"]

cacheOnErrorStored(C, up, cacheKey) ==
    SetCache(C, up, cacheKey, [NoEntry EXCEPT !.cache_status = "MISS"])

\* a failed generation returns before the cache is written
cacheOnError(C, up, cacheKey) == C

sessionsOnHitRefreshed(Sess, req, t) ==
    IF req.conversation_id = "" THEN Sess
    ELSE refreshSessionTTL(Sess, req.conversation_id, t)

\* a hit returns before determineModelID: the sessions are not looked at
sessionsOnHit(Sess, req, t) == Sess

\* the part of HandleGeneration after determineModelID returned d
GenerateAndRespond(req, d, script) ==
    LET cacheKey == GenerateVersionedCacheKey("llmcache", req.prompt, versions)
        base == [ReqResp(req) EXCEPT !.routed = d.routed,
                                     !.router_pref = IF d.routed THEN d.preference ELSE "",
                                     !.router_tokens = IF d.routed THEN d.tokens ELSE 0,
                                     !.chosen = d.modelID,
                                     !.written = IF d.code # 0 THEN <<d.code>> ELSE <<>>]
    IN  IF responseSent(d)
        THEN {[profiles |-> d.profiles, spent |-> spent, sessions |-> d.sessions,
               cache |-> cache,
               resp |-> [base EXCEPT !.code = d.code,
                                     !.available_models = d.available_models]]}
        ELSE LET results == IF usesTools(req)
                            THEN handleToolLoop(config, d.profiles, script)
                            ELSE executeRAGAndGenerate(config, d.profiles, d.modelID, req.prompt)
                 traced(g) == [base EXCEPT !.gen_model = g.gen_model,
                                           !.gen_calls = g.gen_calls,
                                           !.tool_turns = g.tool_turns,
                                           !.script = IF usesTools(req) THEN script ELSE NoScript,
                                           !.error = g.error]
             IN  {[profiles |-> g.profiles, spent |-> spent, sessions |-> d.sessions,
                   cache |-> cacheOnError(cache, cacheUp, cacheKey),
                   resp |-> [traced(g) EXCEPT !.code = 500, !.written = Append(@, 500)]]
                  : g \in {x \in results : x.err}}
                 \cup
                 {LET g == y[1]
                      up == UpdateProfileOnSuccess(g.profiles, spent, d.modelID, y[2], g.usage)
                      finalResponse ==
                          [content |-> finalContent(g), model_used |-> d.modelID,
                           usage |-> g.usage, rag_context_used |-> g.rag,
                           cache_status |-> "MISS", failover_info |-> d.failoverInfo]
                  IN  [profiles |-> up.store, spent |-> up.spent, sessions |-> d.sessions,
                       cache |-> SetCache(cache, cacheUp, cacheKey, finalResponse),
                       resp |-> Respond(traced(g), 200, finalResponse)]
                  : y \in {x \in results : ~x.err} \X Latencies}

\* every way the gateway can handle request req in the current state
HandleGenerationOutcomes(req, script) ==
    IF ~req.valid
    THEN {[profiles |-> profiles, spent |-> spent, sessions |-> sessions, cache |-> cache,
           resp |-> [ReqResp(req) EXCEPT !.code = 400, !.written = <<400>>]]}
    ELSE IF CheckCache(cache, cacheUp,
                       GenerateVersionedCacheKey("llmcache", req.prompt, versions)) # NoEntry
    THEN {[profiles |-> profiles, spent |-> spent,
           sessions |-> sessionsOnHit(sessions, req, now), cache |-> cache,
           resp |-> Respond(ReqResp(req), 200,
                            cachedHit(CheckCache(cache, cacheUp,
                               GenerateVersionedCacheKey("llmcache", req.prompt, versions))))]}
    ELSE UNION {GenerateAndRespond(req, d, script)
                : d \in determineModelID(profiles, spent, sessions, now, config, req)}

HandleGeneration(req, script) ==
    /\ \E o \in HandleGenerationOutcomes(req, script) :
          /\ profiles' = o.profiles
          /\ spent' = o.spent
          /\ sessions' = o.sessions
          /\ cache' = o.cache
          /\ resp' = o.resp
    /\ nreq' = nreq + 1
    /\ UNCHANGED <<config, now, month, versions, cacheUp, inflight>>

---------------------------------------------------------------------------
\* Environment: health checker, clock, calendar.

RECURSIVE runChecksStoppingAtFailure(_, _, _, _, _, _)
runChecksStoppingAtFailure(i, cfg, P, S, t, healthy) ==
    IF i > Len(cfg.EnabledModels) THEN P
    ELSE LET modelID == cfg.EnabledModels[i]
         IN  IF modelID \notin Clients(cfg)
             THEN runChecksStoppingAtFailure(i + 1, cfg, P, S, t, healthy)
             ELSE IF modelID \notin healthy
             THEN UpdateProfileOnHealthCheck(P, S, t, modelID, FALSE)
             ELSE runChecksStoppingAtFailure(i + 1, cfg,
                            UpdateProfileOnHealthCheck(P, S, t, modelID, TRUE),
                            S, t, healthy)

\* runChecks: one round of startHealthChecker over the configured models
RECURSIVE runChecks(_, _, _, _, _, _)
runChecks(i, cfg, P, S, t, healthy) ==
    IF i > Len(cfg.EnabledModels) THEN P
    ELSE LET modelID == cfg.EnabledModels[i]
         IN  IF modelID \notin Clients(cfg)
             THEN runChecks(i + 1, cfg, P, S, t, healthy)
             ELSE runChecks(i + 1, cfg,
                            UpdateProfileOnHealthCheck(P, S, t, modelID, modelID \in healthy),
                            S, t, healthy)

HealthCheck(healthy) ==
    /\ profiles' = runChecks(1, config, profiles, spent, now, healthy)
    /\ resp' = NoResp
    /\ UNCHANGED <<config, spent, sessions, cache, now, month, nreq, versions, cacheUp, inflight>>

\* time passes; keys whose TTL ran out are gone
Tick ==
    /\ now < MaxTime
    /\ now' = now + 1
    /\ sessions' = [c \in Convs |->
                      IF sessions[c] # NoSession /\ sessions[c].expires <= now + 1
                      THEN NoSession ELSE sessions[c]]
    /\ resp' = NoResp
    /\ UNCHANGED <<config, profiles, spent, cache, month, nreq, versions, cacheUp, inflight>>

\* a new calendar month: the cost counters are read under a new key
NewMonth ==
    /\ month < MaxMonth
    /\ month' = month + 1
    /\ spent' = [m \in ModelIds |-> 0]
    /\ resp' = NoResp
    /\ UNCHANGED <<config, profiles, sessions, cache, now, nreq, versions, cacheUp, inflight>>

Init ==
    /\ config \in Configs
    /\ profiles = [m \in ModelIds |-> NoProfile]
    /\ spent = [m \in ModelIds |-> 0]
    /\ sessions = [c \in Convs |-> NoSession]
    /\ cache = EmptyCache
    /\ now = 0
    /\ month = 0
    /\ nreq = 0
    /\ resp = NoResp
    /\ versions = ComponentVersions
    /\ cacheUp = TRUE
    /\ inflight = NoCalls

Request ==
    /\ nreq < MaxRequests
    /\ \E req \in Requests :
          \E script \in (IF req.valid /\ usesTools(req) THEN ToolScripts ELSE {NoScript}) :
             HandleGeneration(req, script)

Next ==
    \/ Request
    \/ \E healthy \in SUBSET Range(config.EnabledModels) : HealthCheck(healthy)
    \/ Tick
    \/ NewMonth

Spec == Init /\ [][Next]_vars

---------------------------------------------------------------------------
\* The router on a persisted store: the store is drawn from the profiles the
\* profiler leaves behind, and SelectOptimalModel is applied to it once.

RouterPreferences == {"cost", "max_quality", "smart-balanced", "no-such-strategy"}

RouterPromptTokens == {3, 1003}

RouterConfigs ==
    { [EnabledModels |-> <<"gpt-4o", "claude-3", "mistral-7b">>, Models |-> ModelIds,
       ModelBudgets |-> Budgets],
      [EnabledModels |-> <<"gpt-4o", "claude-3", "mistral-7b">>,
       Models |-> {"gpt-4o", "claude-3"}, ModelBudgets |-> Budgets] }

\* what happened to a model since its profile was created at time 0:
\* successful calls at a latency, failed calls
\* (an event is the latency of a successful call, or 0 for a failed call)
ProfileHistories ==
    {<<>>, <<1000>>, <<3000>>, <<0>>, <<0, 0>>, <<3000, 0>>, <<1000, 1000>>}

RECURSIVE ReplayHistory(_, _, _, _)
ReplayHistory(h, i, m, st) ==
    IF i > Len(h) THEN st
    ELSE ReplayHistory(h, i + 1, m,
            IF h[i] = 0
            THEN [store |-> UpdateProfileOnFailure(st.store, m), spent |-> st.spent]
            ELSE UpdateProfileOnSuccess(st.store, st.spent, m, h[i],
                                        CHOOSE u \in Usages : TRUE))

\* the profile hash and cost counter of model m after history h, followed
\* by an optional health probe at time t
PersistedProfile(m, h, probe, t) ==
    LET st0 == [store |-> createDefaultProfile([x \in ModelIds |-> NoProfile], 0, m).store,
                spent |-> [x \in ModelIds |-> 0]]
        st1 == ReplayHistory(h, 1, m, st0)
        P2 == IF probe = "none" THEN st1.store
              ELSE UpdateProfileOnHealthCheck(st1.store, st1.spent, t, m, probe = "healthy")
    IN  [hash |-> P2[m], spent |-> st1.spent[m]]

PersistedProfiles(m, t) ==
    {[hash |-> NoProfile, spent |-> 0]}
    \cup {PersistedProfile(m, x[1], x[2], t)
          : x \in ProfileHistories \X {"none", "healthy", "unhealthy"}}

RouterInit ==
    /\ config \in RouterConfigs
    /\ now \in 0..MaxTime
    /\ \E wa \in PersistedProfiles("gpt-4o", now),
          wb \in PersistedProfiles("claude-3", now),
          wc \in PersistedProfiles("mistral-7b", now) :
          LET w == [m \in ModelIds |->
                      CASE m = "gpt-4o" -> wa [] m = "claude-3" -> wb [] OTHER -> wc]
          IN  /\ profiles = [m \in ModelIds |-> w[m].hash]
              /\ spent = [m \in ModelIds |-> w[m].spent]
    /\ sessions = [c \in Convs |-> NoSession]
    /\ cache = EmptyCache
    /\ month = 0
    /\ nreq = 0
    /\ resp = NoResp
    /\ versions = ComponentVersions
    /\ cacheUp = TRUE
    /\ inflight = NoCalls

\* one call of SelectOptimalModel on the enabled models
Route(preference, promptTokens) ==
    /\ nreq = 0
    /\ \E r \in SelectOptimalModel(profiles, spent, now, config, config.EnabledModels,
                                   preference, promptTokens) :
          /\ profiles' = r.store
          /\ resp' = [NoResp EXCEPT !.routed = TRUE, !.router_pref = preference,
                                    !.router_tokens = promptTokens,
                                    !.chosen = r.modelID,
                                    !.code = IF r.modelID = "" THEN 503 ELSE 0]
    /\ nreq' = nreq + 1
    /\ UNCHANGED <<config, spent, sessions, cache, now, month, versions, cacheUp, inflight>>

RouterNext == \E preference \in RouterPreferences, promptTokens \in RouterPromptTokens :
                  Route(preference, promptTokens)

SpecRouter == RouterInit /\ [][RouterNext]_vars

---------------------------------------------------------------------------
\* The profiler one store command at a time: concurrent UpdateProfileOnSuccess
\* and UpdateProfileOnFailure calls on the profile of one model.  Each store
\* command is atomic; the commands of a pipeline are not a transaction, so
\* commands of other calls may run between them.

MaxCalls == 2

ProfiledModel == "gpt-4o"

ProfilerUsages ==
    {[prompt_tokens |-> 100, completion_tokens |-> 200],
     [prompt_tokens |-> 10, completion_tokens |-> 20]}

\* the calls a handler can issue: a kind with its arguments
ProfilerCalls ==
    {[kind |-> "success", usage |-> u, latency |-> l] : u \in ProfilerUsages, l \in Latencies}
    \cup {[kind |-> "failure", usage |-> NoUsage, latency |-> 0]}

\* a call before its first command
NewCall(c) ==
    [kind |-> c.kind, usage |-> c.usage, latency |-> c.latency,
     pc |-> IF c.kind = "success" THEN "watch" ELSE "incr_failures",
     seen |-> 0, dirty |-> FALSE, successes |-> Nil, failures |-> Nil]

HSetAs(h, field, n) == [h EXCEPT ![field] = n]

\* HINCRBY: add n to the field, a missing field counting as 0
HIncrBy(h, field, n) == [h EXCEPT ![field] = ParseNum(@) + n]

\* HSET
HSet(h, field, v) == [h EXCEPT ![field] = v]

\* a write to the profile key modifies the key that every call between its
\* read and its write of the latency is watching
Invalidate(calls, i) ==
    [j \in 1..Len(calls) |->
        IF j # i /\ calls[j].pc = "exec" THEN [calls[j] EXCEPT !.dirty = TRUE] ELSE calls[j]]

\* the store commands of UpdateProfileOnSuccess, in program order
SuccessStep(i) ==
    LET c == inflight.calls[i]
        h == profiles[ProfiledModel]
        write(h2, c2) ==
            /\ profiles' = [profiles EXCEPT ![ProfiledModel] = h2]
            /\ inflight' = [inflight EXCEPT !.calls = Invalidate([inflight.calls EXCEPT ![i] = c2], i)]
        local(c2) ==
            /\ profiles' = profiles
            /\ inflight' = [inflight EXCEPT !.calls[i] = c2]
    IN  /\ c.kind = "success"
        /\ c.pc # "done"
        /\ CASE c.pc = "watch" ->
                  /\ local([c EXCEPT !.seen = ParseNum(h.avg_latency_ms), !.dirty = FALSE,
                                     !.pc = "exec"])
                  /\ spent' = spent
             [] c.pc = "exec" ->
                  \* tx.Pipelined sends the HSET outside MULTI/EXEC (only
                  \* TxPipelined would queue it in the transaction), so it is
                  \* applied whether or not the watched key was modified
                  /\ write(HSet(h, "avg_latency_ms", EwmaLatency(c.latency, c.seen)),
                           [c EXCEPT !.pc = "incr_successes"])
                  /\ spent' = spent
             [] c.pc = "incr_successes" ->
                  /\ LET h2 == HIncrBy(h, "total_successes", 1)
                     IN  write(h2, [c EXCEPT !.successes = h2.total_successes,
                                             !.pc = "get_failures"])
                  /\ spent' = spent
             [] c.pc = "get_failures" ->
                  /\ local([c EXCEPT !.failures = h.total_failures, !.pc = "incr_input"])
                  /\ spent' = spent
             [] c.pc = "incr_input" ->
                  /\ write(HIncrBy(h, "total_input_tokens", c.usage.prompt_tokens),
                           [c EXCEPT !.pc = "incr_output"])
                  /\ spent' = spent
             [] c.pc = "incr_output" ->
                  /\ write(HIncrBy(h, "total_output_tokens", c.usage.completion_tokens),
                           [c EXCEPT !.pc = "set_status"])
                  /\ spent' = spent
             [] c.pc = "set_status" ->
                  /\ write(HSet(h, "status", "online"), [c EXCEPT !.pc = "incr_cost"])
                  /\ spent' = spent
             [] c.pc = "incr_cost" ->
                  /\ local([c EXCEPT !.pc = IF c.failures = Nil THEN "done" ELSE "set_rate"])
                  /\ spent' = [spent EXCEPT ![ProfiledModel] =
                                  @ + c.usage.prompt_tokens * modelCosts[ProfiledModel].input
                                    + c.usage.completion_tokens * modelCosts[ProfiledModel].output]
             [] c.pc = "set_rate" ->
                  /\ write(HSet(h, "error_rate",
                                [n |-> c.failures, d |-> c.successes + c.failures]),
                           [c EXCEPT !.pc = "done"])
                  /\ spent' = spent
    /\ UNCHANGED <<config, sessions, cache, now, month, nreq, resp, versions, cacheUp>>

\* the store commands of UpdateProfileOnFailure, in program order
FailureStep(i) ==
    LET c == inflight.calls[i]
        h == profiles[ProfiledModel]
        write(h2, c2) ==
            /\ profiles' = [profiles EXCEPT ![ProfiledModel] = h2]
            /\ inflight' = [inflight EXCEPT !.calls = Invalidate([inflight.calls EXCEPT ![i] = c2], i)]
    IN  /\ c.kind = "failure"
        /\ c.pc # "done"
        /\ CASE c.pc = "incr_failures" ->
                  LET h2 == HIncrBy(h, "total_failures", 1)
                  IN  write(h2, [c EXCEPT !.failures = h2.total_failures,
                                          !.pc = "get_successes"])
             [] c.pc = "get_successes" ->
                  /\ profiles' = profiles
                  /\ inflight' = [inflight EXCEPT !.calls[i] =
                                     [c EXCEPT !.successes = h.total_successes,
                                               !.pc = "set_status"]]
             [] c.pc = "set_status" ->
                  write(HSet(h, "status", "degraded"),
                        [c EXCEPT !.pc = IF c.successes = Nil THEN "done" ELSE "set_rate"])
             [] c.pc = "set_rate" ->
                  write(HSet(h, "error_rate",
                             [n |-> c.failures, d |-> c.successes + c.failures]),
                        [c EXCEPT !.pc = "done"])
    /\ UNCHANGED <<config, spent, sessions, cache, now, month, nreq, resp, versions, cacheUp>>

\* the existing profiles the calls start from
ProfilerBases ==
    {PersistedProfile(ProfiledModel, h, "none", 0) : h \in {<<>>, <<1000>>, <<0>>}}

ProfilerInit ==
    /\ config \in {cfg \in Configs : Len(cfg.EnabledModels) = 1}
    /\ \E b \in ProfilerBases, n \in 1..MaxCalls :
          \E calls \in [1..n -> ProfilerCalls] :
             /\ profiles = [m \in ModelIds |-> IF m = ProfiledModel THEN b.hash ELSE NoProfile]
             /\ spent = [m \in ModelIds |-> IF m = ProfiledModel THEN b.spent ELSE 0]
             /\ inflight = [base |-> b, calls |-> [j \in 1..n |-> NewCall(calls[j])]]
    /\ sessions = [c \in Convs |-> NoSession]
    /\ cache = EmptyCache
    /\ now = 0
    /\ month = 0
    /\ nreq = 0
    /\ resp = NoResp
    /\ versions = ComponentVersions
    /\ cacheUp = TRUE

ProfilerNext ==
    \/ \E i \in 1..Len(inflight.calls) : SuccessStep(i)
    \/ \E i \in 1..Len(inflight.calls) : FailureStep(i)

SpecProfiler == ProfilerInit /\ [][ProfilerNext]_vars

---------------------------------------------------------------------------
\* The tool loop against every provider behaviour: one tool request on a
\* freshly started gateway, the provider's answers drawn from all scripts.

AllToolScripts == [1..ScriptLen -> ProviderResults]

ToolRequests == {req \in Requests : req.valid /\ usesTools(req)}

ToolLoopNext ==
    /\ nreq = 0
    /\ \E req \in ToolRequests, script \in AllToolScripts : HandleGeneration(req, script)

SpecToolLoop == Init /\ [][ToolLoopNext]_vars

---------------------------------------------------------------------------
\* The response cache across deployments and store outages: requests without
\* a routing preference on a gateway whose models have been probed, redeployments
\* with other component versions, and the cache store going down and up.

CacheRequests ==
    {req \in Requests : ~req.valid \/ req.preference = ""}

\* the profile of a model after its first health probe
ProbedProfile(m, healthy) ==
    PersistedProfile(m, <<>>, IF healthy THEN "healthy" ELSE "unhealthy", 0).hash

CacheInit ==
    /\ config = [EnabledModels |-> <<"gpt-4o", "claude-3">>, Models |-> ModelIds,
                 ModelBudgets |-> Budgets]
    /\ \E healthy \in SUBSET Range(config.EnabledModels) :
          profiles = [m \in ModelIds |->
                        IF m \in Range(config.EnabledModels)
                        THEN ProbedProfile(m, m \in healthy) ELSE NoProfile]
    /\ spent = [m \in ModelIds |-> 0]
    /\ sessions = [c \in Convs |-> NoSession]
    /\ cache = EmptyCache
    /\ now = 0
    /\ month = 0
    /\ nreq = 0
    /\ resp = NoResp
    /\ versions = ComponentVersions
    /\ cacheUp = TRUE
    /\ inflight = NoCalls

CacheRequest ==
    /\ nreq < MaxRequests
    /\ \E req \in CacheRequests :
          \E script \in (IF req.valid /\ usesTools(req) THEN ToolScripts ELSE {NoScript}) :
             HandleGeneration(req, script)

\* the gateway is rebuilt with other component versions and restarted
Deploy(v) ==
    /\ v # versions
    /\ versions' = v
    /\ resp' = NoResp
    /\ UNCHANGED <<config, profiles, spent, sessions, cache, now, month, nreq, cacheUp,
                   inflight>>

\* the cache store becomes unreachable, or reachable again
CacheOutage ==
    /\ cacheUp' = ~cacheUp
    /\ resp' = NoResp
    /\ UNCHANGED <<config, profiles, spent, sessions, cache, now, month, nreq, versions,
                   inflight>>

CacheNext ==
    \/ CacheRequest
    \/ \E v \in Deployments : Deploy(v)
    \/ CacheOutage

SpecCache == CacheInit /\ [][CacheNext]_vars

---------------------------------------------------------------------------
\* The provider adapters' blocking Generate: one call, step by step, against
\* every sequence of attempt outcomes, with the request context cancelled at
\* any moment. Delays are in seconds.

maxRetries == 3

initialRetryDelay == 2

\* OpenAI, Anthropic and Mistral share doRequest; Gemini calls its SDK once
Adapters == {"openai", "anthropic", "mistral", "gemini"}

RetryingAdapters == {"openai", "anthropic", "mistral"}

\* how one HTTP attempt ends: httpClient.Do fails, the body cannot be read,
\* or a response of a status class arrives
AttemptOutcomes == {"network", "read_error", "2xx", "4xx", "5xx"}

AttemptScripts == [1..maxRetries -> AttemptOutcomes]

NewGenerate(a, script) ==
    [adapter |-> a, script |-> script, pc |-> "attempt", i |-> 0,
     delay |-> initialRetryDelay, attempts |-> <<>>, slept |-> <<>>,
     cancelled |-> FALSE, attempts_at_cancel |-> 0, sleeps_at_cancel |-> 0,
     result |-> ""]

\* what the attempt of iteration i sees: with a cancelled context
\* httpClient.Do (or the SDK call) returns the context's error
attemptOutcome(g) ==
    IF g.cancelled THEN "network" ELSE g.script[g.i + 1]

\* GeminiClient.Generate: one SendMessage, its error is returned
geminiGenerate(g) ==
    LET o == attemptOutcome(g)
    IN  [g EXCEPT !.attempts = Append(@, o),
                  !.pc = "done",
                  !.result = IF o = "2xx" THEN "ok" ELSE "error"]

\* one iteration of doRequest up to its sleep or return
doRequestAttempt(g) ==
    LET o == attemptOutcome(g)
        g1 == [g EXCEPT !.attempts = Append(@, o)]
    IN  CASE o = "network" -> [g1 EXCEPT !.pc = "sleep"]
          [] o = "read_error" -> [g1 EXCEPT !.pc = "done", !.result = "error"]
          [] o = "2xx" -> [g1 EXCEPT !.pc = "done", !.result = "ok"]
          [] o = "4xx" -> [g1 EXCEPT !.pc = "done", !.result = "error"]
          [] OTHER -> [g1 EXCEPT !.pc = "sleep"]

\* time.Sleep(delay); delay *= 2; i++ and the loop condition
doRequestSleep(g) ==
    LET g1 == [g EXCEPT !.slept = Append(@, g.delay), !.delay = 2 * @, !.i = @ + 1]
    IN  IF g1.i < maxRetries
        THEN [g1 EXCEPT !.pc = "attempt"]
        ELSE [g1 EXCEPT !.pc = "done", !.result = "error"]

AdapterInit ==
    /\ config = [EnabledModels |-> <<"gpt-4o", "claude-3">>, Models |-> ModelIds,
                 ModelBudgets |-> Budgets]
    /\ profiles = [m \in ModelIds |-> NoProfile]
    /\ spent = [m \in ModelIds |-> 0]
    /\ sessions = [c \in Convs |-> NoSession]
    /\ cache = EmptyCache
    /\ now = 0
    /\ month = 0
    /\ nreq = 0
    /\ resp = NoResp
    /\ versions = ComponentVersions
    /\ cacheUp = TRUE
    /\ \E a \in Adapters, script \in AttemptScripts : inflight = NewGenerate(a, script)

AdapterAttempt ==
    /\ inflight.pc = "attempt"
    /\ inflight' = IF inflight.adapter \in RetryingAdapters
                   THEN doRequestAttempt(inflight) ELSE geminiGenerate(inflight)
    /\ UNCHANGED <<config, profiles, spent, sessions, cache, now, month, nreq, resp,
                   versions, cacheUp>>

AdapterSleep ==
    /\ inflight.pc = "sleep"
    /\ inflight' = doRequestSleep(inflight)
    /\ UNCHANGED <<config, profiles, spent, sessions, cache, now, month, nreq, resp,
                   versions, cacheUp>>

\* the caller cancels the request context while Generate runs
CancelContext ==
    /\ inflight.pc # "done"
    /\ ~inflight.cancelled
    /\ inflight' = [inflight EXCEPT !.cancelled = TRUE,
                                    !.attempts_at_cancel = Len(inflight.attempts),
                                    !.sleeps_at_cancel = Len(inflight.slept)]
    /\ UNCHANGED <<config, profiles, spent, sessions, cache, now, month, nreq, resp,
                   versions, cacheUp>>

AdapterNext == AdapterAttempt \/ AdapterSleep \/ CancelContext

SpecAdapter == AdapterInit /\ [][AdapterNext]_vars

---------------------------------------------------------------------------
\* The adapters' stream producers: the goroutine started by GenerateStream,
\* step by step over every sequence of stream lines, with a consumer that
\* receives what is sent.

MaxLines == 3

\* a content chunk, the end marker ([DONE], message_stop, iterator.Done), a
\* chunk that cannot be decoded, and a line that carries nothing to send
LineKinds == {"content", "done", "malformed", "other"}

\* how the stream ends after its lines: end of stream, or a read error
StreamEndings == {"eof", "read_error"}

StreamLines == UNION {[1..n -> LineKinds] : n \in 0..MaxLines}

NewStream(a, lines, ending) ==
    [adapter |-> a, lines |-> lines, ending |-> ending, pos |-> 0, pc |-> "read",
     pending |-> "", then |-> "", sent |-> <<>>, closes |-> 0, closed |-> FALSE,
     sent_after_close |-> FALSE]

\* outChan <- result, after which the producer continues at pc `then`
sendThen(g, message, then) == [g EXCEPT !.pc = "send", !.pending = message, !.then = then]

\* what each producer does with a line: OpenAI and Mistral report a chunk
\* that cannot be decoded and stop, Anthropic skips it and sends the usage
\* at message_stop, Gemini reports an iterator error and stops
handleLine(g, line) ==
    CASE line = "other" -> g
      [] line = "content" -> sendThen(g, "content", "read")
      [] line = "done" ->
            IF g.adapter = "anthropic" THEN sendThen(g, "usage", "return")
            ELSE [g EXCEPT !.pc = "return"]
      [] OTHER ->
            IF g.adapter = "anthropic" THEN g ELSE sendThen(g, "err", "return")

\* one turn of the read loop; after the last line scanner.Err() (or the
\* iterator's error) decides whether an error is sent
streamRead(g) ==
    IF g.pos = Len(g.lines)
    THEN IF g.ending = "read_error" THEN sendThen(g, "err", "return")
         ELSE [g EXCEPT !.pc = "return"]
    ELSE handleLine([g EXCEPT !.pos = @ + 1], g.lines[g.pos + 1])

\* the send is received; sending on a closed channel is recorded
streamSend(g) ==
    [g EXCEPT !.sent = Append(@, g.pending), !.pc = g.then, !.pending = "",
              !.then = "", !.sent_after_close = @ \/ g.closed]

streamReturnWithoutClose(g) == [g EXCEPT !.pc = "returned"]

\* the function returns: the deferred close(outChan) runs
streamReturn(g) == [g EXCEPT !.pc = "returned", !.closes = @ + 1, !.closed = TRUE]

StreamInit ==
    /\ config = [EnabledModels |-> <<"gpt-4o", "claude-3">>, Models |-> ModelIds,
                 ModelBudgets |-> Budgets]
    /\ profiles = [m \in ModelIds |-> NoProfile]
    /\ spent = [m \in ModelIds |-> 0]
    /\ sessions = [c \in Convs |-> NoSession]
    /\ cache = EmptyCache
    /\ now = 0
    /\ month = 0
    /\ nreq = 0
    /\ resp = NoResp
    /\ versions = ComponentVersions
    /\ cacheUp = TRUE
    /\ \E a \in Adapters, lines \in StreamLines, ending \in StreamEndings :
          inflight = NewStream(a, lines, ending)

StreamRead ==
    /\ inflight.pc = "read"
    /\ inflight' = streamRead(inflight)
    /\ UNCHANGED <<config, profiles, spent, sessions, cache, now, month, nreq, resp,
                   versions, cacheUp>>

StreamSend ==
    /\ inflight.pc = "send"
    /\ inflight' = streamSend(inflight)
    /\ UNCHANGED <<config, profiles, spent, sessions, cache, now, month, nreq, resp,
                   versions, cacheUp>>

StreamReturn ==
    /\ inflight.pc = "return"
    /\ inflight' = streamReturn(inflight)
    /\ UNCHANGED <<config, profiles, spent, sessions, cache, now, month, nreq, resp,
                   versions, cacheUp>>

StreamNext == StreamRead \/ StreamSend \/ StreamReturn

SpecStream == StreamInit /\ [][StreamNext]_vars

---------------------------------------------------------------------------
\* Properties of session resolution (determineModelID).

\* the profile a request reads for model m in the current state
ProfileRead(m) == GetProfile(profiles, spent, now, m).profile

\* the step handles a valid request of conversation c that misses the cache
MissOn(c) ==
    /\ nreq' = nreq + 1
    /\ resp'.conversation_id = c
    /\ resp'.code # 400
    /\ resp'.cache_status # "HIT"

\* C1: when the session of the conversation is forced and its pinned model
\* is offline, the request is routed to another model and the session still
\* holds the original pinned model with is_forced = true afterwards.
C1_ForcedFailoverKeepsSession ==
    [][\A c \in Convs :
          (/\ MissOn(c)
           /\ sessions[c] # NoSession
           /\ sessions[c].is_forced = "true"
           /\ ProfileRead(sessions[c].model_id).Status = "offline"
           /\ resp'.routed
           /\ resp'.chosen # "")
          => /\ resp'.chosen # sessions[c].model_id
             /\ sessions'[c].model_id = sessions[c].model_id
             /\ sessions'[c].is_forced = "true"]_vars

\* C2: when the session is forced and its pinned model is online, every
\* request of the conversation gets the pinned model, whatever preference
\* or force_model it carries: the router is not invoked, no failover_info
\* is reported, and the session keeps its model_id and is_forced.
C2_ForcedSessionReuse ==
    [][\A c \in Convs :
          (/\ MissOn(c)
           /\ sessions[c] # NoSession
           /\ sessions[c].is_forced = "true"
           /\ ProfileRead(sessions[c].model_id).Status = "online")
          => /\ resp'.chosen = sessions[c].model_id
             /\ ~resp'.routed
             /\ resp'.code \in {200, 500}
             /\ resp'.failover_info = NoFailover
             /\ sessions'[c].model_id = sessions[c].model_id
             /\ sessions'[c].is_forced = sessions[c].is_forced]_vars

\* a request carrying a preference and a force_model other than the pinned
\* model was answered from a forced session
C2_Witness ==
    /\ resp.code = 200
    /\ resp.cache_status = "MISS"
    /\ ~resp.routed
    /\ resp.conversation_id \in Convs
    /\ resp.preference # ""
    /\ resp.force_model \notin {"", resp.chosen}
    /\ sessions[resp.conversation_id].is_forced = "true"
    /\ sessions[resp.conversation_id].model_id = resp.chosen

\* C3: when the session is dynamic and its pinned model is online, the
\* pinned model is returned without the router exactly when the request
\* carries no preference; a request with a preference is routed under
\* that preference.
C3_DynamicSessionReuse ==
    [][\A c \in Convs :
          (/\ MissOn(c)
           /\ sessions[c] # NoSession
           /\ sessions[c].is_forced = "false"
           /\ ProfileRead(sessions[c].model_id).Status = "online")
          => /\ resp'.preference = ""
                => (~resp'.routed /\ resp'.chosen = sessions[c].model_id)
             /\ resp'.preference # ""
                => (resp'.routed /\ resp'.router_pref = resp'.preference)]_vars

\* C4: a response with failover_info names the model pinned in the session
\* as original_model and the model used as new_model, and the two differ.
C4_FailoverInfo ==
    [][(nreq' = nreq + 1 /\ resp'.failover_info # NoFailover)
          => /\ resp'.failover_info.new_model = resp'.model_used
             /\ resp'.failover_info.new_model # resp'.failover_info.original_model
             /\ resp'.cache_status = "MISS"
                => /\ resp'.conversation_id \in Convs
                   /\ sessions[resp'.conversation_id].model_id
                        = resp'.failover_info.original_model]_vars

\* C5: a cache-miss request with a conversation_id, no session and a
\* force_model is answered 424 exactly when force_model is offline, and
\* then no session is created; when force_model is online or degraded a
\* forced session on force_model is created and force_model is used.
C5_NewForcedChat ==
    [][\A c \in Convs :
          (/\ MissOn(c)
           /\ sessions[c] = NoSession
           /\ resp'.force_model # "")
          => LET status == ProfileRead(resp'.force_model).Status
             IN  /\ resp'.code = 424 <=> status = "offline"
                 /\ resp'.code = 424 => sessions'[c] = NoSession
                 /\ status # "offline"
                    => /\ sessions'[c].model_id = resp'.force_model
                       /\ sessions'[c].is_forced = "true"
                       /\ resp'.chosen = resp'.force_model]_vars

\* C6: the available_models of a 424 response are enabled models whose
\* stored status is online, and the failed force_model is not among them.
C6_HealthyAlternatives ==
    resp.code = 424
    => \A i \in 1..Len(resp.available_models) :
          LET m == resp.available_models[i]
          IN  /\ m \in Range(config.EnabledModels)
              /\ profiles[m].status = "online"
              /\ m # resp.force_model

\* a 424 response that lists an alternative
C6_Witness ==
    /\ resp.code = 424
    /\ resp.force_model # ""
    /\ resp.available_models # <<>>
    /\ profiles[resp.force_model].status # "online"

---------------------------------------------------------------------------
\* Properties of the router (SelectOptimalModel).

\* the exclusion rules of the pre-filter
PreFilterExcludes(p, budget, t) ==
    \/ p.Status = "offline"
    \/ t - p.LastHealthCheck > health_check_staleness
    \/ budget > 0 /\ p.CostSpentMonthly >= budget
    \/ /\ p.TotalSuccesses + p.TotalFailures > min_request_count
       /\ p.ErrorRate.n * max_error_rate.d > max_error_rate.n * p.ErrorRate.d

\* the enabled models that survive the pre-filter in the current state
Survivors ==
    {m \in Range(config.EnabledModels) :
        ~PreFilterExcludes(ProfileRead(m), config.ModelBudgets[m], now)}

\* the survivors the router can score
Contenders == {m \in Survivors : m \in config.Models}

\* C7: a model returned by SelectOptimalModel is one of available_models
\* and, in the profile read by the call, is not offline, not stale (a check
\* exactly health_check_staleness old passes), below a positive budget and
\* not above max_error_rate with more than min_request_count requests.
C7_RouterResultPassesFilters ==
    [][(nreq' = nreq + 1 /\ resp'.routed /\ resp'.chosen # "")
          => /\ resp'.chosen \in Range(config.EnabledModels)
             /\ ~PreFilterExcludes(ProfileRead(resp'.chosen),
                                   config.ModelBudgets[resp'.chosen], now)]_vars

\* the router returned a degraded model whose health check is exactly at
\* the staleness limit while another enabled model is offline
C7_Witness ==
    /\ resp.routed
    /\ resp.chosen # ""
    /\ profiles[resp.chosen].status = "degraded"
    /\ now - profiles[resp.chosen].last_health_check = health_check_staleness
    /\ \E m \in Range(config.EnabledModels) : profiles[m].status = "offline"

\* model m has spent its positive monthly budget
OverBudget(m) == config.ModelBudgets[m] > 0 /\ spent[m] >= config.ModelBudgets[m]

\* C8: within a month the cost counter of a model never decreases, a model
\* that has spent its positive budget is not returned by the router, and
\* when every enabled model is over budget a routed request gets 503.
C8_OverBudgetNeverRouted ==
    [][/\ \A m \in ModelIds :
             (OverBudget(m) /\ month' = month)
             => /\ spent'[m] >= spent[m]
                /\ ~(resp'.routed /\ resp'.chosen = m)
       /\ (/\ nreq' = nreq + 1
           /\ resp'.routed
           /\ \A m \in Range(config.EnabledModels) : OverBudget(m))
          => resp'.code = 503]_vars

\* a request was routed to a model while another enabled model had spent
\* its budget
C8_Witness ==
    /\ resp.routed
    /\ resp.code = 200
    /\ \E m \in Range(config.EnabledModels) : OverBudget(m) /\ m # resp.chosen

\* the counters of a profile as a reader sees them
Counters(P, m) ==
    LET p == GetProfile(P, spent, now, m).profile
    IN  <<p.TotalSuccesses, p.TotalFailures, p.TotalInputTokens, p.TotalOutputTokens>>

\* C9: when no enabled model survives the pre-filter the router returns an
\* error; a router error is answered 503, leaves sessions, cache and cost
\* counters as they were, calls no provider and no tool, and changes no
\* profile counter.
C9_NoContenderIs503 ==
    [][(nreq' = nreq + 1 /\ resp'.routed)
          => /\ Survivors = {} => resp'.chosen = ""
             /\ resp'.chosen = ""
                => /\ resp'.code = 503
                   /\ sessions' = sessions
                   /\ cache' = cache
                   /\ spent' = spent
                   /\ resp'.gen_calls = 0
                   /\ resp'.tool_turns = 0
                   /\ \A m \in ModelIds : Counters(profiles', m) = Counters(profiles, m)]_vars

\* a request of a conversation with a session got 503 from the router
C9_Witness ==
    /\ resp.code = 503
    /\ resp.routed
    /\ resp.conversation_id \in Convs
    /\ sessions[resp.conversation_id] # NoSession
    /\ Survivors = {}

FracAdd(a, b) == Frac(a.n * b.d + b.n * a.d, a.d * b.d)

FracMul(a, b) == Frac(a.n * b.n, a.d * b.d)

\* the cost the router estimates for a call of promptTokens tokens
EstimateOf(m, promptTokens) ==
    promptTokens * ProfileRead(m).CostPerInputToken
    + 2 * promptTokens * ProfileRead(m).CostPerOutputToken

RECURSIVE SumOf(_, _)
SumOf(C, promptTokens) ==
    IF C = {} THEN 0
    ELSE LET m == CHOOSE x \in C : TRUE
         IN  EstimateOf(m, promptTokens) + SumOf(C \ {m}, promptTokens)

\* the strategy a preference resolves to for contender set C
ResolvedStrategy(preference, C, promptTokens) ==
    IF preference = "smart-balanced"
    THEN IF SumOf(C, promptTokens) < smartCostThreshold * Cardinality(C)
         THEN Strategies["latency-focused-balanced"]
         ELSE Strategies["quality-focused-balanced"]
    ELSE IF preference \in StrategyNames THEN Strategies[preference]
    ELSE Strategies["default"]

\* linear normalisation of x over the values X, lower is better
LowerIsBetter(x, X) ==
    IF SetMax(X) > SetMin(X)
    THEN Frac(SetMax(X) - x, SetMax(X) - SetMin(X))
    ELSE [n |-> 1, d |-> 2]

\* (qw * qf + cw * cf + lw * lf) * (1 - error_rate) over contender set C
ScoreOf(m, C, strategy, promptTokens) ==
    LET p == ProfileRead(m)
        qf == IF strategy.UseCodingScore
              THEN Frac(ModelMetadataTable[m].CodingScore, 10)
              ELSE Frac(ModelMetadataTable[m].QualityScore, 10)
        cf == LowerIsBetter(EstimateOf(m, promptTokens),
                            {EstimateOf(x, promptTokens) : x \in C})
        lf == LowerIsBetter(p.AvgLatencyMS, {ProfileRead(x).AvgLatencyMS : x \in C})
        w(k, f) == FracMul([n |-> k, d |-> 1], f)
        sum == FracAdd(FracAdd(w(strategy.QualityWeight, qf), w(strategy.CostWeight, cf)),
                       w(strategy.LatencyWeight, lf))
    IN  FracMul(sum, Frac(p.ErrorRate.d - p.ErrorRate.n, p.ErrorRate.d))

\* C10: when at least one contender survives, SelectOptimalModel returns a
\* contender whose score is maximal among the contenders under the resolved
\* strategy; a single contender is returned whatever its score.
C10_ReturnsArgmax ==
    [][(nreq' = nreq + 1 /\ resp'.routed /\ Contenders # {})
          => LET C == Contenders
                 strategy == ResolvedStrategy(resp'.router_pref, C, resp'.router_tokens)
                 best == ScoreOf(resp'.chosen, C, strategy, resp'.router_tokens)
             IN  /\ resp'.chosen \in C
                 /\ Cardinality(C) = 1 => C = {resp'.chosen}
                 /\ \A c \in C :
                       FracGE(best, ScoreOf(c, C, strategy, resp'.router_tokens))]_vars

\* the router preferred a contender with a positive error rate to one with
\* a strictly lower score
C10_Witness ==
    /\ resp.routed
    /\ resp.chosen \in Contenders
    /\ Cardinality(Contenders) >= 2
    /\ ProfileRead(resp.chosen).ErrorRate.n > 0
    /\ \E c \in Contenders :
          LET strategy == ResolvedStrategy(resp.router_pref, Contenders, resp.router_tokens)
          IN  FracGT(ScoreOf(resp.chosen, Contenders, strategy, resp.router_tokens),
                     ScoreOf(c, Contenders, strategy, resp.router_tokens))

---------------------------------------------------------------------------
\* Properties of the profiler.

\* the stored status of model m; a model without a profile starts online
StatusOf(P, m) == IF P[m] = NoProfile THEN "online" ELSE P[m].status

\* C12: the status of a model moves only along online/degraded -> degraded
\* (generation failure), degraded -> online (generation success),
\* online/degraded -> offline (failed probe) and offline -> online
\* (successful probe): a request never changes the status of an offline
\* model and never makes a model offline.
C12_StatusMachine ==
    [][\A m \in ModelIds :
          LET old == StatusOf(profiles, m)
              new == StatusOf(profiles', m)
          IN  /\ nreq' = nreq + 1
                 => /\ old = "offline" => new = "offline"
                    /\ old # "offline" => new \in {"online", "degraded"}
              /\ nreq' = nreq
                 => \/ new = old
                    \/ old \in {"online", "degraded"} /\ new = "offline"
                    \/ old = "offline" /\ new = "online"
                    \/ old = "degraded" /\ new = "online"]_vars

\* every call in flight has returned
AllDone == \A i \in 1..Len(inflight.calls) : inflight.calls[i].pc = "done"

\* a counter of the stored profile
Stored(field) == ParseNum(profiles[ProfiledModel][field])

\* C11: once the OnSuccess and OnFailure calls on a model have completed,
\* whatever their interleaving, the stored error_rate times
\* (total_successes + total_failures) equals total_failures when that sum
\* is positive.
C11_ErrorRateInvariant ==
    AllDone
    => LET rate == ParseRate(profiles[ProfiledModel].error_rate)
           total == Stored("total_successes") + Stored("total_failures")
       IN  total > 0 => rate.n * total = Stored("total_failures") * rate.d

\* what a call adds to a counter of the profile
Contribution(c, field) ==
    CASE field = "total_successes" -> IF c.kind = "success" THEN 1 ELSE 0
      [] field = "total_failures" -> IF c.kind = "failure" THEN 1 ELSE 0
      [] field = "total_input_tokens" -> c.usage.prompt_tokens
      [] field = "total_output_tokens" -> c.usage.completion_tokens

RECURSIVE SumCalls(_, _, _)
SumCalls(calls, i, field) ==
    IF i > Len(calls) THEN 0
    ELSE Contribution(calls[i], field) + SumCalls(calls, i + 1, field)

\* C13: concurrent OnSuccess and OnFailure calls on an existing profile
\* lose no counter update: after n OnSuccess and m OnFailure calls,
\* total_successes has grown by n, total_failures by m, and the token
\* counters by the sums of the reported prompt and completion tokens.
C13_NoLostCounterUpdate ==
    AllDone
    => \A field \in {"total_successes", "total_failures",
                     "total_input_tokens", "total_output_tokens"} :
          Stored(field) = ParseNum(inflight.base.hash[field])
                          + SumCalls(inflight.calls, 1, field)

\* two successful calls with different usage ran interleaved (one of them
\* modified the profile between the other's latency read and write) and
\* returned
C13_Witness ==
    /\ Len(inflight.calls) = 2
    /\ AllDone
    /\ inflight.calls[1].kind = "success"
    /\ inflight.calls[2].kind = "success"
    /\ inflight.calls[1].usage # inflight.calls[2].usage
    /\ \E i \in 1..2 : inflight.calls[i].dirty

---------------------------------------------------------------------------
\* Properties of the tool loop (handleToolLoop).

\* the calls among the first maxToolCalls whose result is not a tool request
StoppingCalls(script) == {k \in 1..maxToolCalls : script[k].kind # "tools"}

\* C17: the tool loop makes at most 5 Generate calls; it stops at the first
\* result without tool calls and answers with that result's content (or with
\* 500 when that call failed); when the first five results all ask for tools
\* it fails with "exceeded maximum number of tool calls" and the request is
\* answered 500.
C17_ToolLoopTerminates ==
    (resp.script # NoScript /\ toolModelID \in Clients(config)) =>
        LET stops == StoppingCalls(resp.script)
        IN  /\ resp.gen_calls <= maxToolCalls
            /\ stops = {} =>
                  /\ resp.gen_calls = maxToolCalls
                  /\ resp.code = 500
                  /\ resp.error = "exceeded maximum number of tool calls"
            /\ stops # {} =>
                  LET k == SetMin(stops)
                  IN  /\ resp.gen_calls = k
                      /\ resp.script[k].kind = "final" =>
                            /\ resp.code = 200
                            /\ resp.content = <<"result", k, "of", toolModelID>>
                      /\ resp.script[k].kind = "error" => resp.code = 500

\* five tool requests in a row, although a sixth call would have been answered
C17_Witness ==
    /\ resp.script # NoScript
    /\ \A k \in 1..maxToolCalls : resp.script[k].kind = "tools"
    /\ resp.script[maxToolCalls + 1].kind = "final"
    /\ resp.code = 500
    /\ resp.gen_calls = maxToolCalls

---------------------------------------------------------------------------
\* Properties of the response cache.

\* the store key under which HandleGeneration looks up and stores prompt p
\* when built with versions v
KeyOf(p, v) == ResponseCacheKey(GenerateVersionedCacheKey("llmcache", p, v))

\* the fields of a response that a hit takes from the stored entry
SameAnswer(a, b) ==
    /\ a.content = b.content
    /\ a.model_used = b.model_used
    /\ a.usage = b.usage
    /\ a.rag_context_used = b.rag_context_used
    /\ a.failover_info = b.failover_info

\* the step handles a valid request
HandlesRequest == nreq' = nreq + 1 /\ resp'.code # 400

\* the step answers a request whose key is readable in the cache
HandlesCached ==
    /\ HandlesRequest
    /\ cacheUp
    /\ KeyOf(resp'.prompt, versions) \in DOMAIN cache

\* C14 (first part): a request whose key is present in the cache is answered
\* 200 with the stored response, cache_status overwritten with "HIT", and
\* nothing is generated, recorded or stored for it.
StoredResponseReturned ==
    HandlesCached =>
        /\ resp'.code = 200
        /\ resp'.cache_status = "HIT"
        /\ SameAnswer(resp', cache[KeyOf(resp'.prompt, versions)])
        /\ resp'.gen_calls = 0
        /\ UNCHANGED <<cache, profiles, spent, sessions>>

\* the step answers 200 to a request that repeats the prompt of the preceding
\* request, which was answered 200 with cache_status MISS
RepeatsSuccessfulMiss ==
    /\ HandlesRequest
    /\ resp'.code = 200
    /\ resp.code = 200
    /\ resp.cache_status = "MISS"
    /\ resp'.prompt = resp.prompt

C15_OnlySuccessWritesCache ==
    [][/\ cache' # cache =>
             /\ resp'.code = 200
             /\ resp'.cache_status = "MISS"
             /\ DOMAIN cache' = DOMAIN cache \cup {KeyOf(resp'.prompt, versions)}
             /\ \A k \in DOMAIN cache : k # KeyOf(resp'.prompt, versions) => cache'[k] = cache[k]
             /\ SameAnswer(cache'[KeyOf(resp'.prompt, versions)], resp')
       /\ resp'.code \in {400, 424, 503, 500} => cache' = cache
       /\ (nreq' = nreq + 1 /\ resp'.code = 200 /\ ~cacheUp) =>
             /\ cache' = cache
             /\ resp'.cache_status = "MISS"
             /\ resp'.content = <<"result", resp'.gen_calls, "of", resp'.gen_model>>
             /\ resp'.model_used = resp'.chosen]_vars

\* a generation that failed while the store was reachable and held an entry
C15_Witness ==
    /\ resp.code = 500
    /\ resp.gen_calls > 0
    /\ cache # EmptyCache
    /\ cacheUp

---------------------------------------------------------------------------
\* Properties of the adapters' blocking Generate.

\* network errors and 5xx responses
Transient(o) == o \in {"network", "read_error", "5xx"}

\* the number of attempts the retry policy prescribes for a script: up to
\* the first attempt that is not a transient failure, at most maxRetries
PrescribedAttempts(script) ==
    LET final == {k \in 1..maxRetries : ~Transient(script[k])}
    IN  IF final = {} THEN maxRetries ELSE SetMin(final)

\* the delays before the second and the third attempt
BackoffDelays == <<initialRetryDelay, 2 * initialRetryDelay>>

\* C18: a Generate call that was not cancelled has made exactly the attempts
\* the retry policy prescribes (transient failures retried up to 3 attempts,
\* a 4xx or a success ending the call), never more than 3, and has slept 2 s
\* before the second and 4 s before the third attempt.
C18_RetryPolicy ==
    (inflight.pc = "done" /\ ~inflight.cancelled) =>
        LET n == Len(inflight.attempts)
        IN  /\ n <= maxRetries
            /\ n = PrescribedAttempts(inflight.script)
            /\ Len(inflight.slept) >= n - 1
            /\ \A k \in 1..(n - 1) : inflight.slept[k] = BackoffDelays[k]

\* C19: once the context is cancelled the call makes no further attempt and
\* sleeps no more.
C19_CancellationStopsRetries ==
    inflight.cancelled =>
        /\ Len(inflight.attempts) = inflight.attempts_at_cancel
        /\ Len(inflight.slept) = inflight.sleeps_at_cancel

---------------------------------------------------------------------------
\* Properties of the stream producers.

\* C20: whatever the stream lines, the producer never closes the channel
\* twice, has closed it exactly once when it has returned, closes it only by
\* returning, and never sends on it after closing.
C20_ClosedExactlyOnce ==
    /\ inflight.closes <= 1
    /\ inflight.pc = "returned" => inflight.closes = 1
    /\ inflight.closed => inflight.pc = "returned"
    /\ ~inflight.sent_after_close

\* a producer that returned after reporting a chunk it could not decode
C20_Witness ==
    /\ inflight.pc = "returned"
    /\ inflight.closes = 1
    /\ Len(inflight.sent) = 2
    /\ inflight.sent[1] = "content"
    /\ inflight.sent[2] = "err"
    /\ inflight.pos < Len(inflight.lines)


\* C21: when a producer has read a chunk that cannot be decoded, that chunk is
\* the last line it reads, the last item it sends is an error, and it closes
\* the channel; nothing is delivered after the malformed chunk.
C21_MalformedEndsStream ==
    \A k \in 1..inflight.pos :
        inflight.lines[k] = "malformed" =>
            /\ inflight.pos = k
            /\ inflight.pc \in {"send", "return", "returned"}
            /\ inflight.pc = "send" => inflight.pending = "err"
            /\ inflight.pc \in {"return", "returned"} =>
                  /\ inflight.sent # <<>>
                  /\ inflight.sent[Len(inflight.sent)] = "err"


---------------------------------------------------------------------------
\* Properties of the health checker.

\* the step is a round of the health checker
HealthRound == nreq' = nreq /\ now' = now /\ month' = month

\* the configured models that have a client
Probed == Range(config.EnabledModels) \cap Clients(config)

\* C22: a health-check round reports a probe outcome for every configured
\* model that has a client, whatever the outcomes of the other probes: after
\* the round each of these models has status online or offline and a
\* last_health_check of this round; the other profiles are left alone.
C22_EveryModelProbed ==
    [][HealthRound =>
          /\ \A m \in Probed :
                /\ profiles'[m] # NoProfile
                /\ profiles'[m].last_health_check = now
                /\ profiles'[m].status \in {"online", "offline"}
          /\ \A m \in ModelIds \ Probed : profiles'[m] = profiles[m]]_vars

\* a round in which the first model's probe failed and the second model was
\* still probed and found healthy
C22_Witness ==
    /\ config.EnabledModels = <<"gpt-4o", "claude-3">>
    /\ Probed = {"gpt-4o", "claude-3"}
    /\ now > 0
    /\ resp = NoResp
    /\ profiles["gpt-4o"] # NoProfile
    /\ profiles["claude-3"] # NoProfile
    /\ profiles["gpt-4o"].status = "offline"
    /\ profiles["gpt-4o"].last_health_check = now
    /\ profiles["claude-3"].status = "online"
    /\ profiles["claude-3"].last_health_check = now


---------------------------------------------------------------------------
\* Properties of the profile updates made by a request.

\* the stored total_failures and total_input_tokens summed over a set of
\* models: OnFailure adds one failure, OnSuccess adds the request's prompt
\* tokens, and the creation of a default profile changes neither
RECURSIVE StoredFailures(_, _)
StoredFailures(P, S) ==
    IF S = {} THEN 0
    ELSE LET m == CHOOSE x \in S : TRUE
         IN  ParseNum(P[m].total_failures) + StoredFailures(P, S \ {m})

RECURSIVE StoredInputTokens(_, _)
StoredInputTokens(P, S) ==
    IF S = {} THEN 0
    ELSE LET m == CHOOSE x \in S : TRUE
         IN  ParseNum(P[m].total_input_tokens) + StoredInputTokens(P, S \ {m})

\* the step handles a request that misses the cache and calls a provider
Generates ==
    /\ nreq' = nreq + 1
    /\ resp'.cache_status # "HIT"
    /\ resp'.gen_calls > 0

\* C23: a request that reaches generation is answered 200 or 500 and applies
\* exactly one profile update: 200 comes with one OnSuccess and no OnFailure,
\* 500 (a failed generation, or a tool loop that exceeded its limit) with one
\* OnFailure and no OnSuccess.
C23_ExactlyOneProfileUpdate ==
    [][Generates =>
          /\ resp'.code \in {200, 500}
          /\ resp'.code = 200 =>
                /\ resp'.usage.prompt_tokens > 0
                /\ StoredInputTokens(profiles', ModelIds)
                      = StoredInputTokens(profiles, ModelIds) + resp'.usage.prompt_tokens
                /\ StoredFailures(profiles', ModelIds) = StoredFailures(profiles, ModelIds)
          /\ resp'.code = 500 =>
                /\ StoredInputTokens(profiles', ModelIds) = StoredInputTokens(profiles, ModelIds)
                /\ StoredFailures(profiles', ModelIds)
                      = StoredFailures(profiles, ModelIds) + 1]_vars


\* C24: in a 200 response produced on a cache miss, model_used is the model
\* whose adapter generated the content, and that model's profile is the one
\* credited with the request's tokens.
C24_ModelUsedGenerated ==
    [][(Generates /\ resp'.code = 200) =>
          /\ resp'.model_used = resp'.gen_model
          /\ StoredInputTokens(profiles', {resp'.gen_model})
                = StoredInputTokens(profiles, {resp'.gen_model}) + resp'.usage.prompt_tokens]_vars


\* C25: a request never calls the provider of a model that was offline, or
\* over its positive monthly budget, when the request chose it.
C25_NoCallToUnavailableModel ==
    [][Generates =>
          /\ StatusOf(profiles, resp'.gen_model) # "offline"
          /\ ~OverBudget(resp'.gen_model)]_vars


---------------------------------------------------------------------------
\* Properties of the latency update (UpdateProfileOnSuccess).

\* C26: a call whose watched profile was modified after it read
\* avg_latency_ms does not store a latency: its write step leaves
\* avg_latency_ms as it is.
C26_NoStaleLatencyWrite ==
    [][\A i \in 1..Len(inflight.calls) :
          (/\ inflight.calls[i].pc = "exec"
           /\ inflight.calls[i].dirty
           /\ inflight'.calls[i].pc # "exec")
          => profiles'[ProfiledModel].avg_latency_ms
                = profiles[ProfiledModel].avg_latency_ms]_vars


---------------------------------------------------------------------------
\* Default-profile creation running next to the profile updates: the calls
\* of inflight.calls act on ProfiledModel, which has no hash at the start.
\* GetProfile is a read (HGETALL) followed, when the read found nothing, by
\* the pipeline of createDefaultProfile; UpdateProfileOnHealthCheck calls
\* GetProfile and then writes status and last_health_check.  The commands
\* of one pipeline are taken as one step here.

CreateCalls ==
    {[kind |-> k, usage |-> NoUsage, latency |-> 0] : k \in {"get", "probe", "failure"}}
    \cup {[kind |-> "success", usage |-> u, latency |-> 1000] : u \in ProfilerUsages}

NewCreateCall(c) ==
    [NewCall(c) EXCEPT !.pc = IF c.kind \in {"get", "probe"} THEN "hgetall" ELSE @]

\* the HSETs of createDefaultProfile applied to a hash h: the fields it
\* writes are overwritten, the token counters are left as they are
createDefaultFields(h, m, t) ==
    [f \in DOMAIN h |->
        IF f \in {"total_input_tokens", "total_output_tokens"}
        THEN h[f]
        ELSE DefaultHash(m, t)[f]]

GetProfileStep(i) ==
    LET c == inflight.calls[i]
        h == profiles[ProfiledModel]
        after == IF c.kind = "get" THEN "done" ELSE "set_health"
        write(h2, c2) ==
            /\ profiles' = [profiles EXCEPT ![ProfiledModel] = h2]
            /\ inflight' = [inflight EXCEPT !.calls = Invalidate([inflight.calls EXCEPT ![i] = c2], i)]
    IN  /\ c.kind \in {"get", "probe"}
        /\ c.pc # "done"
        /\ CASE c.pc = "hgetall" ->
                  /\ profiles' = profiles
                  /\ inflight' = [inflight EXCEPT !.calls[i] =
                                     [c EXCEPT !.pc = IF h = NoProfile THEN "create" ELSE after]]
             [] c.pc = "create" ->
                  write(createDefaultFields(h, ProfiledModel, now), [c EXCEPT !.pc = after])
             [] c.pc = "set_health" ->
                  write(HSet(HSet(h, "status", "offline"), "last_health_check", now),
                        [c EXCEPT !.pc = "done"])
    /\ UNCHANGED <<config, spent, sessions, cache, now, month, nreq, resp, versions, cacheUp>>

CreateInit ==
    /\ config \in {cfg \in Configs : Len(cfg.EnabledModels) = 1}
    /\ \E n \in 1..MaxCalls :
          \E calls \in [1..n -> CreateCalls] :
             inflight = [base |-> [hash |-> NoProfile, spent |-> 0],
                         calls |-> [j \in 1..n |-> NewCreateCall(calls[j])]]
    /\ profiles = [m \in ModelIds |-> NoProfile]
    /\ spent = [m \in ModelIds |-> 0]
    /\ sessions = [c \in Convs |-> NoSession]
    /\ cache = EmptyCache
    /\ now = 1
    /\ month = 0
    /\ nreq = 0
    /\ resp = NoResp
    /\ versions = ComponentVersions
    /\ cacheUp = TRUE

CreateNext ==
    \/ \E i \in 1..Len(inflight.calls) : GetProfileStep(i)
    \/ \E i \in 1..Len(inflight.calls) : SuccessStep(i)
    \/ \E i \in 1..Len(inflight.calls) : FailureStep(i)

SpecCreate == CreateInit /\ [][CreateNext]_vars

\* C27: the creation of the default profile never resets what another call
\* has already written: the step in which a call applies createDefaultProfile
\* leaves every stored counter, error_rate, status and last_health_check
\* that is present in the hash as it is.
C27_CreationResetsNothing ==
    [][\A i \in 1..Len(inflight.calls) :
          (inflight.calls[i].pc = "create" /\ inflight'.calls[i].pc # "create")
          => \A f \in {"total_successes", "total_failures", "error_rate",
                       "status", "last_health_check"} :
                profiles[ProfiledModel][f] # NoProfile[f]
                => profiles'[ProfiledModel][f] = profiles[ProfiledModel][f]]_vars


---------------------------------------------------------------------------
\* The message list of handleToolLoop, one step per provider turn and per
\* tool execution.  inflight holds the local variables of the call:
\* messages, the loop counter i, the tool calls of the current turn that
\* are still to be executed (todo), the error of the last tool execution
\* (toolErr), and base, the length of the list the loop started from.

MaxToolCallsPerTurn == 2

ToolHistories ==
    {<<>>,
     <<[Role |-> "user", Content |-> "weather?"],
       [Role |-> "tool", Content |-> <<"sunny">>]>>}

NoToolCallID == <<>>

llmMessage(role, content) ==
    [Role |-> role, Content |-> content, ToolCalls |-> <<>>, ToolCallID |-> NoToolCallID]

\* convertAPIMessagesToLLMMessages keeps role and content only
convertAPIMessagesToLLMMessages(apiMessages) ==
    [k \in 1..Len(apiMessages) |-> llmMessage(apiMessages[k].Role, apiMessages[k].Content)]

\* the tool calls a provider returns in the turn of iteration i
resultToolCalls(i, n) ==
    [j \in 1..n |-> [ID |-> <<"call", i, j>>,
                     Name |-> IF j % 2 = 1 THEN "get_weather" ELSE "get_stock"]]

\* the tools registered with the tool manager
RegisteredTools == {"get_weather", "calculator"}

NoError == <<>>

\* what ToolManager.Execute can return for a tool name: the error of an
\* unknown name, or what the tool returns (a result, an error for invalid
\* JSON arguments, an error for a failed call of its API)
ExecuteResults(name) ==
    IF name \notin RegisteredTools
    THEN {[result |-> <<>>, err |-> <<"tool '", name, "' not found">>]}
    ELSE {[result |-> <<"22 degrees">>, err |-> NoError],
          [result |-> <<>>, err |-> <<"invalid arguments for weather tool">>],
          [result |-> <<>>, err |-> <<"failed to call weather API">>]}

toolResultTextOfResult(toolCall, out) == out.result

\* toolResult: the result, or "Error executing tool <name>: <err>"
toolResultText(toolCall, out) ==
    IF out.err # NoError
    THEN <<"Error executing tool ", toolCall.Name, ": ">> \o out.err
    ELSE out.result

assistantMessage(toolCalls) ==
    [Role |-> "assistant", Content |-> "", ToolCalls |-> toolCalls, ToolCallID |-> NoToolCallID]

toolMessageWithoutID(toolCall, toolResult) ==
    [Role |-> "tool", Content |-> toolResult, ToolCalls |-> <<>>, ToolCallID |-> NoToolCallID]

toolMessage(toolCall, toolResult) ==
    [Role |-> "tool", Content |-> toolResult, ToolCalls |-> <<>>, ToolCallID |-> toolCall.ID]

MessagesInit ==
    /\ config \in {cfg \in Configs : Len(cfg.EnabledModels) = 1}
    /\ \E hist \in ToolHistories :
          LET messages == Append(convertAPIMessagesToLLMMessages(hist),
                                 llmMessage("user", "what is the weather?"))
          IN  inflight = [messages |-> messages, base |-> Len(messages), i |-> 0,
                          todo |-> <<>>, pc |-> "generate", err |-> FALSE,
                          toolErr |-> NoError]
    /\ profiles = [m \in ModelIds |-> NoProfile]
    /\ spent = [m \in ModelIds |-> 0]
    /\ sessions = [c \in Convs |-> NoSession]
    /\ cache = EmptyCache
    /\ now = 0
    /\ month = 0
    /\ nreq = 0
    /\ resp = NoResp
    /\ versions = ComponentVersions
    /\ cacheUp = TRUE

\* one pass through the loop head and client.Generate
LoopGenerate ==
    /\ inflight.pc = "generate"
    /\ \/ /\ ~loopContinues(inflight.i)
          /\ inflight' = [inflight EXCEPT !.pc = "done", !.err = TRUE]
       \/ /\ loopContinues(inflight.i)
          /\ \E kind \in {r.kind : r \in ProviderResults}, n \in 1..MaxToolCallsPerTurn :
                CASE kind = "error" ->
                       inflight' = [inflight EXCEPT !.pc = "done", !.err = TRUE]
                  [] kind = "final" ->
                       inflight' = [inflight EXCEPT !.pc = "done"]
                  [] OTHER ->
                       LET toolCalls == resultToolCalls(inflight.i, n)
                       IN  inflight' = [inflight EXCEPT
                                           !.messages = Append(@, assistantMessage(toolCalls)),
                                           !.todo = toolCalls,
                                           !.pc = "execute"]
    /\ UNCHANGED <<config, profiles, spent, sessions, cache, now, month, nreq, resp,
                   versions, cacheUp>>

\* one pass through the body of `for _, toolCall := range result.ToolCalls`
LoopExecute ==
    /\ inflight.pc = "execute"
    /\ \E out \in ExecuteResults(Head(inflight.todo).Name) :
          inflight' = [inflight EXCEPT
                          !.messages = Append(@, toolMessage(Head(inflight.todo),
                                                 toolResultText(Head(inflight.todo), out))),
                          !.toolErr = out.err,
                          !.todo = Tail(@),
                          !.i = IF Len(inflight.todo) = 1 THEN @ + 1 ELSE @,
                          !.pc = IF Len(inflight.todo) = 1 THEN "generate" ELSE "execute"]
    /\ UNCHANGED <<config, profiles, spent, sessions, cache, now, month, nreq, resp,
                   versions, cacheUp>>

MessagesNext == LoopGenerate \/ LoopExecute

SpecMessages == MessagesInit /\ [][MessagesNext]_vars

\* the position of the last assistant message appended before position q
RECURSIVE AssistantBefore(_, _)
AssistantBefore(messages, q) ==
    IF q = 0 THEN 0
    ELSE IF messages[q].Role = "assistant" THEN q
    ELSE AssistantBefore(messages, q - 1)

\* C28: every tool message the loop appended answers, by position and by
\* id, a tool call of the assistant message appended before it in the same
\* iteration; when the list is sent to the provider every tool call of
\* every appended assistant message has exactly one tool message, in
\* tool_call order, and no tool execution is outstanding.
C28_ToolMessagesAnswerToolCalls ==
    LET messages == inflight.messages
        Appended == (inflight.base + 1)..Len(messages)
    IN  /\ \A q \in Appended :
              messages[q].Role = "tool" =>
                 LET p == AssistantBefore(messages, q)
                 IN  /\ p > inflight.base
                     /\ q - p <= Len(messages[p].ToolCalls)
                     /\ messages[q].ToolCallID = messages[p].ToolCalls[q - p].ID
        /\ inflight.pc = "generate" =>
              /\ inflight.todo = <<>>
              /\ \A p \in Appended :
                    messages[p].Role = "assistant" =>
                       /\ messages[p].ToolCalls # <<>>
                       /\ p + Len(messages[p].ToolCalls) <= Len(messages)
                       /\ \A j \in 1..Len(messages[p].ToolCalls) :
                             /\ messages[p + j].Role = "tool"
                             /\ messages[p + j].ToolCallID = messages[p].ToolCalls[j].ID
                       /\ p + Len(messages[p].ToolCalls) < Len(messages)
                             => messages[p + Len(messages[p].ToolCalls) + 1].Role = "assistant"

\* a list about to be sent in the third turn, after a turn with two tool
\* calls and a turn with one, on top of a history that holds a tool message
C28_Witness ==
    /\ inflight.pc = "generate"
    /\ inflight.i = 2
    /\ inflight.base = 3
    /\ Len(inflight.messages) = inflight.base + 5
    /\ Len(inflight.messages[inflight.base + 1].ToolCalls) = 2


---------------------------------------------------------------------------
\* Properties of the cache hit in the running gateway.

\* C29: a request answered from the cache makes no routing decision and no
\* provider call, and leaves every profile, every cost counter, the cache
\* and every session (model, forced flag and expiry) as they were, whatever
\* conversation_id and force_model it carries.
C29_HitHasNoSideEffects ==
    [][(nreq' = nreq + 1 /\ resp'.cache_status = "HIT") =>
          /\ resp'.code = 200
          /\ ~resp'.routed
          /\ resp'.gen_calls = 0
          /\ resp'.tool_turns = 0
          /\ resp'.available_models = <<>>
          /\ UNCHANGED <<profiles, spent, cache, sessions>>]_vars

\* a hit for a request that names a conversation whose session is older
\* than the request and pinned to another model than the one it forces
C29_Witness ==
    /\ resp.cache_status = "HIT"
    /\ resp.conversation_id # ""
    /\ resp.force_model # ""
    /\ sessions[resp.conversation_id] # NoSession
    /\ sessions[resp.conversation_id].model_id # resp.force_model
    /\ sessions[resp.conversation_id].expires < now + sessionTTL


---------------------------------------------------------------------------
\* Properties of the session store.

\* the step handles a request of conversation c
RequestOf(c) == nreq' = nreq + 1 /\ resp'.conversation_id = c

\* the request of the step finds the session of c pinned to a model that is
\* not online, which is when determineModelID fails over
FailsOver(c) ==
    /\ sessions[c] # NoSession
    /\ sessionFailover(GetProfile(profiles, spent, now, sessions[c].model_id).profile.Status)

\* a session appears only in a step that handles a request of its
\* conversation for which a model was determined
CreatedOnlyByRequest ==
    \A c \in Convs :
       (sessions[c] = NoSession /\ sessions'[c] # NoSession)
       => (RequestOf(c) /\ resp'.code \notin {400, 424, 503})

\* C30: a session is created only by a request of its conversation for
\* which a model was determined, and the model_id and is_forced of an
\* existing session change only in a request that failed over.
C30_SessionChangedOnlyByFailover ==
    [][/\ CreatedOnlyByRequest
       /\ \A c \in Convs :
             (/\ sessions[c] # NoSession
              /\ sessions'[c] # NoSession
              /\ <<sessions'[c].model_id, sessions'[c].is_forced>>
                    # <<sessions[c].model_id, sessions[c].is_forced>>)
             => (RequestOf(c) /\ FailsOver(c))]_vars


---------------------------------------------------------------------------
\* Concurrent pinSession calls on one conversation, one step per store
\* command: the HSET of the two fields, then the EXPIRE of
\* refreshSessionTTL.  inflight.last is the call whose HSET ran last.

PinnedConv == "conv-42"

PinCalls == [modelID : {"gpt-4o", "claude-3"}, isForced : BOOLEAN]

sessionHSetModelOnly(sess, modelID, isForced) ==
    [sess EXCEPT !.model_id = modelID]

\* HSet(ctx, sessionKey, sessionData): one command that sets both fields
sessionHSet(sess, modelID, isForced) ==
    [sess EXCEPT !.model_id = modelID, !.is_forced = FormatBool(isForced)]

PinInit ==
    /\ config \in {cfg \in Configs : Len(cfg.EnabledModels) = 1}
    /\ \E n \in 1..MaxCalls :
          \E calls \in [1..n -> PinCalls] :
             inflight = [last |-> 0,
                         calls |-> [j \in 1..n |->
                                      [modelID |-> calls[j].modelID,
                                       isForced |-> calls[j].isForced, pc |-> "hset"]]]
    /\ profiles = [m \in ModelIds |-> NoProfile]
    /\ spent = [m \in ModelIds |-> 0]
    /\ sessions = [c \in Convs |-> NoSession]
    /\ cache = EmptyCache
    /\ now = 0
    /\ month = 0
    /\ nreq = 0
    /\ resp = NoResp
    /\ versions = ComponentVersions
    /\ cacheUp = TRUE

PinHSet(i) ==
    LET c == inflight.calls[i]
    IN  /\ c.pc = "hset"
        /\ sessions' = [sessions EXCEPT ![PinnedConv] = sessionHSet(@, c.modelID, c.isForced)]
        /\ inflight' = [inflight EXCEPT !.last = i, !.calls[i].pc = "expire"]
        /\ UNCHANGED <<config, profiles, spent, cache, now, month, nreq, resp, versions,
                       cacheUp>>

PinExpire(i) ==
    LET c == inflight.calls[i]
    IN  /\ c.pc = "expire"
        /\ sessions' = refreshSessionTTL(sessions, PinnedConv, now)
        /\ inflight' = [inflight EXCEPT !.calls[i].pc = "done"]
        /\ UNCHANGED <<config, profiles, spent, cache, now, month, nreq, resp, versions,
                       cacheUp>>

PinNext ==
    \/ \E i \in 1..Len(inflight.calls) : PinHSet(i)
    \/ \E i \in 1..Len(inflight.calls) : PinExpire(i)

SpecPin == PinInit /\ [][PinNext]_vars

\* C31: the stored session is at every moment the pair (model_id, is_forced)
\* of the pinSession call that wrote last, never the model of one call with
\* the flag of another.
C31_LastWriterWins ==
    IF inflight.last = 0
    THEN sessions[PinnedConv] = NoSession
    ELSE /\ sessions[PinnedConv].model_id = inflight.calls[inflight.last].modelID
         /\ sessions[PinnedConv].is_forced
               = FormatBool(inflight.calls[inflight.last].isForced)

\* two calls that differ in model and in flag have both written, the
\* second one before the first
C31_Witness ==
    /\ Len(inflight.calls) >= 2
    /\ inflight.calls[1].modelID # inflight.calls[2].modelID
    /\ inflight.calls[1].isForced # inflight.calls[2].isForced
    /\ inflight.calls[1].pc = "done"
    /\ inflight.calls[2].pc = "done"
    /\ inflight.last = 1


---------------------------------------------------------------------------
\* Properties of the session expiry.

\* the step handles a request of conversation c for which determineModelID
\* returned a model
ResolvedFor(c) ==
    /\ RequestOf(c)
    /\ resp'.cache_status # "HIT"
    /\ resp'.code \in {200, 500}

\* C32: a request of a conversation for which a model is determined (the
\* pinned one on a session hit, a pinned one otherwise) leaves the session
\* expiring sessionTTL after the request; the expiry of a session moves in
\* no other step, and a session whose expiry has come is gone.
C32_SessionExpiry ==
    [][\A c \in Convs :
          /\ ResolvedFor(c) =>
                /\ sessions'[c] # NoSession
                /\ sessions'[c].expires = now + sessionTTL
          /\ (sessions[c] # NoSession /\ sessions'[c] # NoSession
                /\ sessions'[c].expires # sessions[c].expires) => ResolvedFor(c)
          /\ sessions'[c] # NoSession => sessions'[c].expires > now']_vars

\* a session hit half an hour after the session was pinned
C32_Witness ==
    /\ now = 1
    /\ nreq = 2
    /\ resp.conversation_id # ""
    /\ resp.code = 200
    /\ resp.cache_status = "MISS"
    /\ ~resp.routed
    /\ resp.force_model = ""
    /\ sessions[resp.conversation_id].model_id = resp.model_used
    /\ sessions[resp.conversation_id].expires = now + sessionTTL


---------------------------------------------------------------------------
\* Properties of the default profile.

\* call i completes the createDefaultProfile of a GetProfile in this step
Creates(i) ==
    /\ inflight.calls[i].pc = "create"
    /\ inflight'.calls[i].pc # "create"

\* C33: a GetProfile that finds no hash and creates the profile while the
\* hash is still absent stores and returns avg_latency_ms 2000, status
\* online, the configured costs, error_rate 0 and every counter 0; a
\* GetProfile that finds a hash leaves the store as it is.
C33_DefaultProfile ==
    [][\A i \in 1..Len(inflight.calls) :
          /\ (Creates(i) /\ profiles[ProfiledModel] = NoProfile) =>
                LET h == profiles'[ProfiledModel]
                    r == GetProfile(profiles, spent, now, ProfiledModel).profile
                IN  /\ h.avg_latency_ms = 2000 /\ r.AvgLatencyMS = 2000
                    /\ h.status = "online" /\ r.Status = "online"
                    /\ h.cost_per_input_token = modelCosts[ProfiledModel].input
                    /\ h.cost_per_output_token = modelCosts[ProfiledModel].output
                    /\ h.error_rate = [n |-> 0, d |-> 1]
                    /\ ParseNum(h.total_successes) = 0 /\ r.TotalSuccesses = 0
                    /\ ParseNum(h.total_failures) = 0 /\ r.TotalFailures = 0
                    /\ ParseNum(h.total_input_tokens) = 0 /\ r.TotalInputTokens = 0
                    /\ ParseNum(h.total_output_tokens) = 0 /\ r.TotalOutputTokens = 0
          /\ (/\ inflight.calls[i].kind = "get"
              /\ inflight.calls[i].pc = "hgetall"
              /\ inflight'.calls[i].pc = "done")
             => profiles' = profiles]_vars


---------------------------------------------------------------------------
\* Properties of the profile a health check leaves.

C35_AbsentOrComplete ==
    AllDone =>
       LET h == profiles[ProfiledModel]
           r == GetProfile(profiles, spent, now, ProfiledModel).profile
       IN  \/ h = NoProfile
           \/ /\ h.status # ""
              /\ h.avg_latency_ms # Nil
              /\ h.cost_per_input_token # Nil
              /\ h.cost_per_output_token # Nil
              /\ h.total_successes # Nil
              /\ h.total_failures # Nil
              /\ h.error_rate # NoProfile.error_rate
              /\ h.last_health_check # ZeroTime
              /\ r.AvgLatencyMS > 0
              /\ r.LastHealthCheck # ZeroTime


---------------------------------------------------------------------------
\* Properties of a failed tool execution.

\* C36: a tool execution that returns an error does not end the request:
\* the step appends, for the tool call it executed, one tool message whose
\* text is "Error executing tool <name>: <error>", then goes on to the next
\* tool call of the turn or, after the last one, to the next provider turn.
C36_ToolErrorContinues ==
    [][(inflight.pc = "execute" /\ inflight'.toolErr # NoError) =>
          LET toolCall == Head(inflight.todo)
              m == inflight'.messages[Len(inflight'.messages)]
          IN  /\ Len(inflight'.messages) = Len(inflight.messages) + 1
              /\ m.Role = "tool"
              /\ m.ToolCallID = toolCall.ID
              /\ m.Content = <<"Error executing tool ", toolCall.Name, ": ">>
                                \o inflight'.toolErr
              /\ ~inflight'.err
              /\ inflight'.todo = Tail(inflight.todo)
              /\ IF Tail(inflight.todo) # <<>>
                 THEN inflight'.pc = "execute" /\ inflight'.i = inflight.i
                 ELSE inflight'.pc = "generate" /\ inflight'.i = inflight.i + 1]_vars

\* a turn with two tool calls whose first execution failed and whose second
\* was executed all the same, about to be followed by the next provider turn
C36_Witness ==
    /\ inflight.pc = "generate"
    /\ inflight.i = 1
    /\ Len(inflight.messages) = inflight.base + 3
    /\ inflight.messages[inflight.base + 2].Content[1] = "Error executing tool "
    /\ inflight.messages[inflight.base + 2].Content[4] = "failed to call weather API"
    /\ inflight.messages[inflight.base + 3].Role = "tool"


---------------------------------------------------------------------------
\* The messages an adapter puts into its next provider request, given the
\* internal list after one tool turn: the assistant message with the tool
\* calls the adapter emitted, followed by one tool message per call.

ProviderCallIDs == {"call_a", "call_b"}

\* the id of a tool call in the GenerationResult of an adapter
emittedID(adapter, raw, name) ==
    IF adapter = "gemini" THEN <<"gemini-toolcall-", name>> ELSE <<raw>>

outMessage(role, content, toolCalls, toolCallID) ==
    [Role |-> role, Content |-> content, ToolCalls |-> toolCalls, ToolCallID |-> toolCallID]

toOpenAIMessages(messages) ==
    [k \in 1..Len(messages) |->
        LET msg == messages[k]
        IN  CASE msg.Role = "tool" ->
                   outMessage(msg.Role, msg.Content, <<>>, msg.ToolCallID)
              [] msg.Role = "assistant" ->
                   outMessage(msg.Role, msg.Content, msg.ToolCalls, NoToolCallID)
              [] OTHER ->
                   outMessage(msg.Role, msg.Content, <<>>, NoToolCallID)]

notSystem(msg) == msg.Role # "system"

\* the tool_use_id of the tool_result block is kept in ToolCallID
toAnthropicMessages(messages) ==
    LET kept == SelectSeq(messages, notSystem)
    IN  [k \in 1..Len(kept) |->
            IF kept[k].Role = "tool"
            THEN outMessage("user", kept[k].Content, <<>>, kept[k].ToolCallID)
            ELSE outMessage(kept[k].Role, kept[k].Content, <<>>, NoToolCallID)]

toMistralMessages(messages) ==
    [k \in 1..Len(messages) |->
        outMessage(messages[k].Role, messages[k].Content, <<>>, NoToolCallID)]

\* chat.History followed by the text sent with SendMessage
toGeminiContentHistory(messages) ==
    [k \in 1..Len(messages) |->
        outMessage(IF k < Len(messages) /\ messages[k].Role = "assistant"
                   THEN "model" ELSE "user",
                   messages[k].Content, <<>>, NoToolCallID)]

toProviderMessages(adapter, messages) ==
    CASE adapter = "openai" -> toOpenAIMessages(messages)
      [] adapter = "anthropic" -> toAnthropicMessages(messages)
      [] adapter = "mistral" -> toMistralMessages(messages)
      [] adapter = "gemini" -> toGeminiContentHistory(messages)

RoundTripInit ==
    /\ config \in {cfg \in Configs : Len(cfg.EnabledModels) = 1}
    /\ \E adapter \in Adapters, hist \in ToolHistories, n \in 1..MaxToolCallsPerTurn :
          \E raw \in [1..n -> ProviderCallIDs], names \in [1..n -> RegisteredTools] :
             LET toolCalls == [j \in 1..n |->
                                 [ID |-> emittedID(adapter, raw[j], names[j]),
                                  Name |-> names[j]]]
                 start == Append(convertAPIMessagesToLLMMessages(hist),
                                 llmMessage("user", <<"what is the weather?">>))
             IN  inflight = [adapter |-> adapter,
                             base |-> Len(start),
                             messages |-> Append(start, assistantMessage(toolCalls))
                                          \o [j \in 1..n |->
                                                toolMessage(toolCalls[j], <<"22 degrees">>)],
                             sent |-> FALSE,
                             request |-> <<>>]
    /\ profiles = [m \in ModelIds |-> NoProfile]
    /\ spent = [m \in ModelIds |-> 0]
    /\ sessions = [c \in Convs |-> NoSession]
    /\ cache = EmptyCache
    /\ now = 0
    /\ month = 0
    /\ nreq = 0
    /\ resp = NoResp
    /\ versions = ComponentVersions
    /\ cacheUp = TRUE

\* the adapter builds the request of the next turn
BuildRequest ==
    /\ ~inflight.sent
    /\ inflight' = [inflight EXCEPT
                       !.sent = TRUE,
                       !.request = toProviderMessages(inflight.adapter, inflight.messages)]
    /\ UNCHANGED <<config, profiles, spent, sessions, cache, now, month, nreq, resp,
                   versions, cacheUp>>

RoundTripNext == BuildRequest

SpecRoundTrip == RoundTripInit /\ [][RoundTripNext]_vars

\* C37: in the request an adapter builds for the next turn, every tool
\* result carries the tool_call_id of its tool message unmodified, and the
\* forwarded assistant message carries a tool call with that id.
C37_ToolCallIDRoundTrip ==
    inflight.sent =>
       LET messages == inflight.messages
           request == inflight.request
           p == inflight.base + 1
       IN  /\ Len(request) = Len(messages)
           /\ \A q \in (p + 1)..Len(messages) :
                 /\ request[q].ToolCallID = messages[q].ToolCallID
                 /\ q - p <= Len(request[p].ToolCalls)
                 /\ request[p].ToolCalls[q - p].ID = messages[q].ToolCallID


---------------------------------------------------------------------------
\* Properties of the HTTP response.

\* C38: the handling of a request writes exactly one response, with status
\* 200, 400, 424, 500 or 503, which is the status the client receives.
C38_ExactlyOneResponse ==
    [][nreq' = nreq + 1 =>
          /\ Len(resp'.written) = 1
          /\ resp'.written[1] \in {200, 400, 424, 500, 503}
          /\ resp'.code = resp'.written[1]]_vars

\* a request refused by determineModelID, which wrote the 424 itself
C38_Witness ==
    /\ resp.code = 424
    /\ resp.written = <<424>>
    /\ resp.gen_calls = 0


---------------------------------------------------------------------------
\* The stream producer together with its consumer.  outChan is unbuffered:
\* a send completes only while the consumer receives.  The consumer may
\* stop receiving at any moment, and the request context may be cancelled,
\* after which the upstream body fails at the next read.

StreamLiveInit ==
    /\ config = [EnabledModels |-> <<"gpt-4o", "claude-3">>, Models |-> ModelIds,
                 ModelBudgets |-> Budgets]
    /\ profiles = [m \in ModelIds |-> NoProfile]
    /\ spent = [m \in ModelIds |-> 0]
    /\ sessions = [c \in Convs |-> NoSession]
    /\ cache = EmptyCache
    /\ now = 0
    /\ month = 0
    /\ nreq = 0
    /\ resp = NoResp
    /\ versions = ComponentVersions
    /\ cacheUp = TRUE
    /\ \E a \in Adapters, lines \in StreamLines, ending \in StreamEndings :
          inflight = NewStream(a, lines, ending)
                        @@ [receiving |-> TRUE, cancelled |-> FALSE]

\* the consumer receives what the producer is sending
ConsumerReceive ==
    /\ inflight.receiving
    /\ StreamSend

\* the consumer stops receiving from the channel
ConsumerStops ==
    /\ inflight.receiving
    /\ inflight' = [inflight EXCEPT !.receiving = FALSE]
    /\ UNCHANGED <<config, profiles, spent, sessions, cache, now, month, nreq, resp,
                   versions, cacheUp>>

\* the request context is cancelled: the rest of the body is not delivered
\* and the next read fails
CancelStream ==
    /\ ~inflight.cancelled
    /\ inflight' = [inflight EXCEPT !.cancelled = TRUE,
                                    !.lines = SubSeq(@, 1, inflight.pos),
                                    !.ending = "read_error"]
    /\ UNCHANGED <<config, profiles, spent, sessions, cache, now, month, nreq, resp,
                   versions, cacheUp>>

StreamLiveNext ==
    \/ StreamRead
    \/ ConsumerReceive
    \/ StreamReturn
    \/ ConsumerStops
    \/ CancelStream

\* the producer goroutine is scheduled whenever it can run, and a consumer
\* that is receiving takes what is sent
SpecStreamLive ==
    /\ StreamLiveInit
    /\ [][StreamLiveNext]_vars
    /\ WF_vars(StreamRead)
    /\ WF_vars(ConsumerReceive)
    /\ WF_vars(StreamReturn)

\* C39: every producer eventually returns and closes its channel, whatever
\* the consumer and the request context do.
C39_ProducerTerminates == <>(inflight.pc = "returned" /\ inflight.closed)


---------------------------------------------------------------------------
\* Concurrent UpdateProfileOnSuccess calls with latencies whose weighted
\* average is not a whole number of milliseconds.

EwmaLatencies == {1234, 7}

EwmaCalls ==
    {[kind |-> "success", usage |-> [prompt_tokens |-> 10, completion_tokens |-> 20],
      latency |-> l] : l \in EwmaLatencies}

EwmaInit ==
    /\ config \in {cfg \in Configs : Len(cfg.EnabledModels) = 1}
    /\ \E b \in ProfilerBases, n \in 1..MaxCalls :
          \E calls \in [1..n -> EwmaCalls] :
             /\ profiles = [m \in ModelIds |-> IF m = ProfiledModel THEN b.hash ELSE NoProfile]
             /\ spent = [m \in ModelIds |-> IF m = ProfiledModel THEN b.spent ELSE 0]
             /\ inflight = [base |-> b, calls |-> [j \in 1..n |-> NewCall(calls[j])]]
    /\ sessions = [c \in Convs |-> NoSession]
    /\ cache = EmptyCache
    /\ now = 0
    /\ month = 0
    /\ nreq = 0
    /\ resp = NoResp
    /\ versions = ComponentVersions
    /\ cacheUp = TRUE

EwmaNext == \E i \in 1..Len(inflight.calls) : SuccessStep(i)

SpecEwma == EwmaInit /\ [][EwmaNext]_vars

\* C40: the latency a call stores differs by less than 1 ms from
\* 0.9 * old + 0.1 * observed, old being the avg_latency_ms the call read
\* and observed its request latency (both sides taken times 10).
C40_EwmaWithinOne ==
    [][\A i \in 1..Len(inflight.calls) :
          (inflight.calls[i].pc = "exec" /\ inflight'.calls[i].pc # "exec") =>
             LET new == profiles'[ProfiledModel].avg_latency_ms
                 exact10 == 9 * inflight.calls[i].seen + inflight.calls[i].latency
             IN  /\ 10 * new - exact10 < 10
                 /\ exact10 - 10 * new < 10]_vars

\* two calls have stored a latency, the later one a truncated value
\* computed from the value the earlier one stored
C40_Witness ==
    /\ Len(inflight.calls) = 2
    /\ \A i \in 1..2 : inflight.calls[i].pc \notin {"watch", "exec"}
    /\ \E i \in 1..2 :
          /\ (9 * inflight.calls[i].seen + inflight.calls[i].latency) % 10 # 0
          /\ inflight.calls[i].seen # ParseNum(inflight.base.hash.avg_latency_ms)
          /\ profiles[ProfiledModel].avg_latency_ms
                = (9 * inflight.calls[i].seen + inflight.calls[i].latency) \div 10

====
